---- MODULE Spec2Model ----
(***************************************************************************)
(* A model of deep-research-mcp: the research agent's task orchestration   *)
(* (submit with retry, poll with deadline, cancel, extract), the           *)
(* clarification session manager and the three MCP tool operations that    *)
(* wrap them, the token-bucket rate limiter and the event loop the         *)
(* coroutines of the agent share.                                          *)
(*                                                                         *)
(* Time is the wall clock in whole seconds (in ticks of 0.05 s for the     *)
(* rate limiter).  A remote call takes no time; only the sleeps of the     *)
(* code advance the clock.  Python strings built                           *)
(* with f-strings are sequences of their parts, so that "the message       *)
(* names X" is "X is one of the parts".                                    *)
(***************************************************************************)
EXTENDS Integers, Sequences, FiniteSets, TLC

VARIABLES
    env,            \* the configuration ResearchConfig.from_env() reads
    research_agent, \* mcp_server.research_agent: NoAgent or the agent's config
    sessions,       \* ClarificationManager._sessions: session id -> session
    remote,         \* the provider's tasks: task id -> [status]
    pc,             \* where the operation in progress stands
    tool,           \* the tool operation in progress: its name and arguments;
                    \* deep_research leaves them there when it returns at once
    call,           \* the locals of the research() call in progress
    obs,            \* what the research() call has done, in progress or just ended
    researchOut,    \* how research() ended, when it was the last operation
    statusOut,      \* how get_task_status() ended, when it was the last operation
    clarOut,        \* how the last direct call of a clarification operation ended
    toolOut,        \* how the tool operation ended, when it was the last operation
    clock,          \* time.time(), in ticks since the model starts
    rate_limiter,   \* the RateLimiter constructed, or NoLimiter
    callers,        \* the coroutines calling the limiter: where each stands
    granted,        \* the tokens the limiter has granted since it was constructed
    event_loop      \* the asyncio event loop: its coroutines and the one it runs

limiterVars == <<clock, rate_limiter, callers, granted>>

vars == <<env, research_agent, sessions, remote, pc, tool, call, obs,
          researchOut, statusOut, clarOut, toolOut, limiterVars, event_loop>>

----------------------------------------------------------------------------
(* Bounds of the model *)

MaxTimeout == 7          \* the largest config.timeout tried
MaxPollInterval == 6     \* the largest config.poll_interval tried
MaxRetriesCfg == 5       \* the largest config.max_retries tried
NumTasks == 2            \* task ids the provider issues
NumSessions == 1         \* sessions the tool operations open
NumDirectSessions == 2   \* sessions direct calls of start_clarification open
MaxAnnotations == 2      \* annotations on a content block
MaxClock == 2            \* ticks after which time advances only to end a sleep
MaxCalls == 3            \* calls of the rate limiter one coroutine makes
MaxErrorRuns == 3         \* poll errors in a row the polling timeout leaves room for
MaxMinutes == 2           \* progress reports a heartbeat sends
MaxPolls == 2            \* polls of one research() call before its deadline
MaxSharedCalls == 2      \* calls one coroutine makes on the shared limiter
MaxWaitClock == 3        \* ticks after which a caller that waits is left asleep

(* Program constants *)

SubmitAttempts == 3      \* stop_after_attempt(3)
BackoffMultiplier == 1   \* wait_exponential(multiplier=1, ...)
BackoffMin == 4          \* wait_exponential(min=4, ...)
BackoffMax == 10         \* wait_exponential(max=10)
PollErrorBackoff == 5    \* asyncio.sleep(5) after a poll error
SecondsPerMinute == 60   \* refill_rate = tokens_per_minute / 60.0
TicksPerSecond == 20     \* a tick is 0.05 s, the shortest sleep of wait_and_acquire
MinSleepTicks == 1       \* max(sleep_for, 0.05)
MaxSleepTicks == 20      \* min(..., 1.0)

----------------------------------------------------------------------------
(* Values *)

None == "<None>"
NoAgent == [provider |-> None]
Range(s) == {s[i] : i \in DOMAIN s}

TaskId(n) == "resp_" \o ToString(n)
TaskIds == {TaskId(n) : n \in 1..NumTasks}
FakeTaskId == "fake-task-id-123"

\* The rate limiter counts tokens as floats; the model counts them in units
\* of 1/Scale token, so that the refill of one tick is a whole number of units
Scale == SecondsPerMinute * TicksPerSecond
TokensPerMinute == {600, 1200}
Callers == {1, 2}
NoLimiter == [capacity |-> None]

\* the coroutines of the server's event loop: two research() calls and a
\* get_task_status() call
ResearchCalls == {"research 1", "research 2"}
Coroutines == ResearchCalls \cup {"get_task_status"}
IdleLoop == [running |-> None,
             coroutines |-> [c \in Coroutines |-> [pc |-> "idle", attempt |-> 0, polls |-> 0]]]
Unlocked == 0            \* asyncio.Lock(), held by no caller
IdleCaller == [pc |-> "idle", calls |-> 0]

SessionId(n) == "session_" \o ToString(n)
DirectSessionIds == {SessionId(n) : n \in 1..NumDirectSessions}
SessionIds == {SessionId(n) : n \in 1..NumSessions}
UnknownSessionId == "no-such-session"

Queries == {"q"}
CallbackUrls == {None, "http://hook"}

Timeouts == {MaxTimeout}
PollIntervals == {2, MaxPollInterval}
RetrySettings == {0, MaxRetriesCfg}
Providers == {"openai", "open-deep-research"}

\* ResearchConfig, the fields the modelled code reads (config.py 50-71)
Config(p, t, i, r, c, k) ==
    [provider |-> p, timeout |-> t, poll_interval |-> i, max_retries |-> r,
     enable_clarification |-> c, api_key |-> k]

\* errors.py: ResearchError and its subclasses
IsResearchError(e) ==
    e.type \in {"ResearchError", "RateLimitError", "TaskTimeoutError", "ConfigurationError"}

Exc(type, msg) == [type |-> type, msg |-> msg]

\* what a call on the network can raise
RemoteErrors == {Exc("APIConnectionError", <<"Connection error.">>),
                 Exc("InternalServerError", <<"">>)}
NotFoundError(id) == Exc("NotFoundError", <<"No response found with id ", id>>)

\* how a call ended
Returned(v) == [kind |-> "return", value |-> v]
Raised(e) == [kind |-> "raise", exc |-> e]
NoOutcome == [kind |-> "none"]

\* the error payloads a failed task can carry: none, mapping-like, scalar
ErrorPayloads ==
    { [shape |-> "none"],
      [shape |-> "map", message |-> "X", code |-> "E1"],
      [shape |-> "map", message |-> "X"],
      [shape |-> "str", text |-> "boom"] }

\* the output sequences a completed task can carry
Annotation(t, u, s, e) == [title |-> t, url |-> u, start_index |-> s, end_index |-> e]
ReasoningItem == [type |-> "reasoning", summary |-> "thinking", content |-> <<>>]
SearchItem(q) == [type |-> "web_search_call", action |-> [query |-> q], content |-> <<>>]
MessageItem(blocks) == [type |-> "message", content |-> blocks]
\* items for which hasattr(item, "summary") and hasattr(item, "action") are
\* false, and a search item whose action (open_page) has no query
ReasoningItemBare == [type |-> "reasoning", content |-> <<>>]
SearchItemBare == [type |-> "web_search_call", content |-> <<>>]
OpenPageItem == [type |-> "web_search_call", action |-> [url |-> "u1"], content |-> <<>>]
Outputs ==
    { <<>>,
      <<MessageItem(<<>>)>>,
      <<ReasoningItem, SearchItem("s1"),
        MessageItem(<<[text |-> "report",
                       annotations |-> <<Annotation("T1", "u1", 0, 3),
                                         Annotation("T2", "u2", 4, 9)>>]>>)>> }

----------------------------------------------------------------------------
(* Faulty variants of the decision points below: each property of the last
   section is violated when the named definition is replaced by its variant *)

\* the retry cap read from the configured max_retries
StopAfterAttempt_config(attempt) == attempt >= research_agent.max_retries

\* cancel called on every exit of the polling loop (as in a finally block)
CancelsOnExit_always(exit) == 1

\* the error path sleeping twice as long
AfterErrorSleep_doubled(elapsed) == elapsed + 2 * PollErrorBackoff

\* research() catching ResearchError by exact type, without its subclasses
ResearchCatches_exact(e) == e.type = "ResearchError"

\* polling the id of the first task ever submitted
PolledTaskId_first == TaskId(1)

\* citation indices counted from 0, as enumerate() yields them
Citations_zero_based(annotations) ==
    [i \in 1..Len(annotations) |->
        [index |-> i - 1,
         title |-> annotations[i].title,
         url |-> annotations[i].url,
         start_char |-> annotations[i].start_index,
         end_char |-> annotations[i].end_index]]

\* the code of the error payload dropped
ErrorCode_dropped(error) == None

\* uuid4 yielding an id it has yielded before
FreshSessionIds_reused(limit) == {SessionId(1)}

\* add_answers answering an unknown id with a status and no error entry
SessionNotFound_status(session_id) == [status |-> "not_found", session_id |-> session_id]

\* add_answers appending to the answers recorded so far
RecordedAnswers_appended(old, answers) == old \o answers

\* add_answers keeping the answers recorded first
RecordedAnswers_first_wins(old, answers) == IF old = <<>> THEN answers ELSE old

\* enrich_query catching connection errors only
EnrichCatches_connection(e) == e.type = "APIConnectionError"

\* analyze_query catching connection errors only
TriageCatches_connection(e) == e.type = "APIConnectionError"

\* get_task_status catching only ResearchError
StatusCatches_research(e) == IsResearchError(e)

\* the tool handlers catching only ResearchError
ToolCatches_research(e) == IsResearchError(e)

\* build_research_instruction catching connection errors only
BuildCatches_connection(e) == e.type = "APIConnectionError"

\* wait_and_acquire trying again without sleeping
SleepTicks_none(l, tokens) == 0

\* the lock of the limiter letting every caller in
LockFree_always(l) == TRUE

\* acquire admitting a request only when more tokens than asked are left
Admits_strict(l, tokens) == l.tokens > tokens * Scale
StartsResearch_always(request_clarification) == TRUE
PollCatches_connection(e) == e.type = "APIConnectionError"
ConstructsAgent_always(agent) == TRUE
Debited_twice(l, tokens) == l.tokens - 2 * tokens * 1200
Refilled_uncapped(l, tokens_to_add) == l.tokens + tokens_to_add
CancelsHeartbeat_never(heartbeat_task) == FALSE
Suspends_every(statement) == TRUE
WaitedTask_shared(c) == TaskId(Cardinality(DOMAIN remote))
RECURSIVE SearchQueries_every(_)
SearchQueries_every(output) ==
    IF output = <<>> THEN <<>>
    ELSE (IF Head(output).type = "web_search_call"
          THEN <<IF "action" \in DOMAIN Head(output)
                    /\ "query" \in DOMAIN Head(output).action
                 THEN Head(output).action.query ELSE "">>
          ELSE <<>>)
         \o SearchQueries_every(Tail(output))
Answered_some(session) ==
    session.answers # <<>> /\ Len(session.answers) >= Len(session.questions)
SessionsAfterEnrichment_deleted(table, session_id) ==
    [sid \in DOMAIN table \ {session_id} |-> table[sid]]
QaPairs_answered_only(session) ==
    [i \in 1..(IF Len(session.answers) < Len(session.questions)
              THEN Len(session.answers) ELSE Len(session.questions)) |->
        [question |-> session.questions[i], answer |-> session.answers[i]]]

----------------------------------------------------------------------------
(* Pure functions *)

Min(a, b) == IF a < b THEN a ELSE b
Max(a, b) == IF a > b THEN a ELSE b

RECURSIVE Pow2(_)
Pow2(n) == IF n <= 0 THEN 1 ELSE 2 * Pow2(n - 1)

\* tenacity's wait_exponential(multiplier=1, min=4, max=10) after attempt n
wait_exponential(n) ==
    Max(Max(0, BackoffMin), Min(BackoffMultiplier * Pow2(n - 1), BackoffMax))

\* tenacity without reraise=True: the last exception wrapped in a RetryError
RetryError(e) == [type |-> "RetryError", msg |-> <<"RetryError[", e.type, "]">>, last |-> e]

\* _wait_for_completion, the message of the error of a failed task
FailedTaskMessage(task_id, error) ==
    IF error.shape = "none" THEN <<"Research task failed: ", task_id>>
    ELSE IF error.shape = "map"
         THEN <<"Research task failed: ",
                IF "message" \in DOMAIN error THEN error.message ELSE "Unknown error">>
              \o (IF "code" \in DOMAIN error
                  THEN <<" (Code: ", error.code, ")">> ELSE <<>>)
         ELSE <<"Research task failed: ", error.text>>

\* _wait_for_completion, the message of the timeout error
TimeoutMessage(task_id, timeout) ==
    <<"Research task ", task_id, " did not complete within ", ToString(timeout), " seconds">>

\* the citations of one content block's annotations
Citations(annotations) ==
    [i \in 1..Len(annotations) |->
        [index |-> i,
         title |-> annotations[i].title,
         url |-> annotations[i].url,
         start_char |-> annotations[i].start_index,
         end_char |-> annotations[i].end_index]]

RECURSIVE SelectItems(_, _)
SelectItems(output, kind) ==
    IF output = <<>> THEN <<>>
    ELSE (IF Head(output).type = kind THEN <<Head(output)>> ELSE <<>>)
         \o SelectItems(Tail(output), kind)

ReasoningSummaries(output) ==
    LET items == SelectItems(output, "reasoning")
        kept == SelectSeq(items, LAMBDA it : "summary" \in DOMAIN it)
    IN  [i \in 1..Len(kept) |-> kept[i].summary]

SearchQueries(output) ==
    LET items == SelectItems(output, "web_search_call")
        kept == SelectSeq(items, LAMBDA it : "action" \in DOMAIN it)
    IN  [i \in 1..Len(kept) |->
            IF "query" \in DOMAIN kept[i].action THEN kept[i].action.query ELSE ""]

\* error_details.get("code")
ErrorCode(error) == IF "code" \in DOMAIN error THEN error.code ELSE None

\* _extract_openai_results
ExtractResults(response) ==
    IF response.status = "failed"
    THEN IF response.error.shape = "map"
         THEN [status |-> "failed",
               message |-> IF "message" \in DOMAIN response.error
                           THEN <<response.error.message>> ELSE <<"Unknown error">>,
               error_code |-> ErrorCode(response.error),
               task_id |-> response.id]
         ELSE IF response.error.shape = "str"
              THEN [status |-> "failed", message |-> <<response.error.text>>,
                    task_id |-> response.id]
              ELSE [status |-> "failed", message |-> <<"Task failed: ", response.id>>]
    ELSE IF response.output = <<>>
    THEN [status |-> "error", message |-> <<"No output received">>]
    ELSE LET final_output == response.output[Len(response.output)]
             has_block == final_output.content # <<>>
         IN  [status |-> "completed",
              final_report |-> IF has_block THEN final_output.content[1].text ELSE "",
              citations |-> IF has_block
                            THEN Citations(final_output.content[1].annotations)
                            ELSE <<>>,
              reasoning_steps |-> Len(ReasoningSummaries(response.output)),
              search_queries |-> SearchQueries(response.output),
              total_steps |-> Len(response.output),
              task_id |-> response.id]

\* research(), the translation of a ResearchError of _wait_for_completion
FailedResult(e) == [status |-> "failed", message |-> e.msg]

\* get_task_status, the record of each branch
StatusRecord(task_id, response) ==
    [task_id |-> task_id, status |-> response.status,
     created_at |-> None, completed_at |-> None]
StatusErrorRecord(task_id, e) == [task_id |-> task_id, status |-> "error", error |-> e.msg]
StatusUnknownRecord(task_id) ==
    [task_id |-> task_id, status |-> "unknown",
     message |-> <<"Task status tracking not available for open-deep-research provider">>]

\* client.responses.retrieve: the snapshots of a task the provider can send.
\* The provider holds the status; a failed task comes with an error payload
\* and a completed one with an output, of whatever shape the provider gives.
Response(id, status, error, output) ==
    [id |-> id, status |-> status, error |-> error, output |-> output]
Snapshots(id) ==
    IF remote[id].status = "failed"
    THEN {Response(id, "failed", e, <<>>) : e \in ErrorPayloads}
    ELSE IF remote[id].status = "completed"
    THEN {Response(id, "completed", [shape |-> "none"], o) : o \in Outputs}
    ELSE {Response(id, remote[id].status, [shape |-> "none"], <<>>)}

\* what client.responses.retrieve(id) can do: raise, or return a snapshot
RetrieveOutcomes(id) ==
    {Raised(e) : e \in RemoteErrors}
    \cup (IF id \in DOMAIN remote THEN {Returned(r) : r \in Snapshots(id)}
          ELSE {Raised(NotFoundError(id))})

----------------------------------------------------------------------------
(* The state after the process has started *)

IdleCall ==
    [caller |-> None, query |-> None, enhanced_query |-> None, callback_url |-> None,
     attempt |-> 0, waited |-> 0, task_id |-> None, elapsed |-> 0,
     final_response |-> [id |-> None, status |-> None,
                         error |-> [shape |-> "none"], output |-> <<>>]]

NoObs ==
    [query |-> None, callback_url |-> None, brief |-> None, builds |-> 0,
     submitted |-> None, creates |-> 0, issued |-> None,
     retrieves |-> 0, raised |-> 0, polled |-> {}, cancels |-> 0, cancelled |-> {},
     posts |-> 0, extracts |-> 0, sawFailed |-> FALSE, sawCompleted |-> FALSE,
     failedError |-> [shape |-> "none"], timeoutAt |-> -1, cancelRaised |-> FALSE]

NoTool == [name |-> None]
NoStatusCall == [task_id |-> None, retrieve |-> "not called", outcome |-> NoOutcome]
NoClarCall == [op |-> None]

AgentConfigs ==
    {Config(p, t, i, r, c, "sk-key") :
        p \in Providers, t \in Timeouts, i \in PollIntervals,
        r \in RetrySettings, c \in BOOLEAN}

\* a program that has constructed DeepResearchAgent(config) itself
Init ==
    /\ env \in AgentConfigs
    /\ research_agent = env
    /\ sessions = <<>>
    /\ remote = <<>>
    /\ pc = "idle"
    /\ tool = NoTool
    /\ call = IdleCall
    /\ obs = NoObs
    /\ researchOut = NoOutcome
    /\ statusOut = NoStatusCall
    /\ clarOut = NoClarCall
    /\ toolOut = NoOutcome
    /\ clock = 0
    /\ rate_limiter = NoLimiter
    /\ callers = [c \in Callers |-> IdleCaller]
    /\ granted = 0
    /\ event_loop = IdleLoop

----------------------------------------------------------------------------
(* The provider *)

Terminal == {"completed", "failed", "cancelled"}

\* a task makes progress at the provider: queued, in_progress, then completed or failed
ProviderStep(id) ==
    /\ id \in DOMAIN remote
    /\ \/ /\ remote[id].status = "queued"
          /\ remote' = [remote EXCEPT ![id].status = "in_progress"]
       \/ /\ remote[id].status = "in_progress"
          /\ remote' = [remote EXCEPT ![id].status = "completed"]
       \/ /\ remote[id].status \in {"queued", "in_progress"}
          /\ remote' = [remote EXCEPT ![id].status = "failed"]
    /\ UNCHANGED <<env, limiterVars, event_loop, clarOut, research_agent, sessions, pc, tool, call, obs,
                   researchOut, statusOut, toolOut>>

\* client.responses.cancel(id) returning: a task not yet terminal is cancelled
AfterCancel(id) ==
    IF id \in DOMAIN remote /\ remote[id].status \notin Terminal
    THEN [remote EXCEPT ![id].status = "cancelled"]
    ELSE remote

----------------------------------------------------------------------------
(* DeepResearchAgent.research, on the hosted provider *)

HasAgent == research_agent.provider # None

\* build_research_instruction: the brief the instruction-builder model writes
Brief(q) == "brief: " \o q

\* build_research_instruction: its except Exception clause catches whatever
\* the loading of the prompt or the model call raises
BuildCatches(e) == TRUE

\* what the pre-pass can run into: the prompt template cannot be loaded (no
\* model call is made), or the model call raises
BuildFailures ==
    {[brief |-> "prompt missing", calls |-> 0,
      exc |-> Exc("FileNotFoundError", <<"Prompt file not found">>)]}
    \cup {[brief |-> "model raised", calls |-> 1, exc |-> e] : e \in RemoteErrors}

\* build_research_instruction: how it went, how it ends and the model calls
\* it made.  Without an instruction client (clarification disabled) it
\* returns the query at once; a failure falls back to the query.
BuildOutcomes(cfg, q) ==
    IF ~cfg.enable_clarification
    THEN {[brief |-> "disabled", calls |-> 0, outcome |-> Returned(q)]}
    ELSE {[brief |-> "written", calls |-> 1, outcome |-> Returned(Brief(q))]}
         \cup {[brief |-> f.brief, calls |-> f.calls,
                outcome |-> IF BuildCatches(f.exc) THEN Returned(q) ELSE Raised(f.exc)]
               : f \in BuildFailures}

\* how research() hands its outcome to whoever awaited it
FinishResearch(out) ==
    /\ researchOut' = out
    /\ pc' = IF call.caller = "direct" THEN "idle" ELSE "tool_resume"
    /\ call' = IdleCall

\* research() up to the first remote call
BeginResearch(agent, caller, q, cb) ==
    \E b \in BuildOutcomes(agent, q) :
        /\ obs' = [NoObs EXCEPT !.query = q, !.brief = b.brief,
                                !.builds = b.calls, !.callback_url = cb]
        /\ statusOut' = NoStatusCall
        /\ IF b.outcome.kind = "raise"
           THEN /\ call' = IdleCall
                /\ pc' = IF caller = "direct" THEN "idle" ELSE "tool_resume"
                /\ researchOut' = b.outcome
           ELSE /\ call' = [IdleCall EXCEPT !.caller = caller, !.query = q,
                                            !.enhanced_query = b.outcome.value,
                                            !.callback_url = cb, !.attempt = 1]
                /\ pc' = IF agent.provider = "openai" THEN "create" ELSE "odr"
                /\ researchOut' = NoOutcome

\* a program calls agent.research(query, callback_url=cb)
Research(q, cb) ==
    /\ pc = "idle"
    /\ HasAgent
    /\ BeginResearch(research_agent, "direct", q, cb)
    /\ UNCHANGED <<env, limiterVars, event_loop, clarOut, research_agent, sessions, remote, tool, toolOut>>

\* @retry(stop=stop_after_attempt(3)): no further attempt after this one
StopAfterAttempt(attempt) == attempt >= SubmitAttempts

\* the id the provider gives the next task: one it has not given before
\* (which one is immaterial, so the ids are handed out in order)
FreshTaskIds ==
    {TaskId(n) : n \in {Cardinality(DOMAIN remote) + 1} \cap (1..NumTasks)}

\* _create_openai_research_task: one attempt of client.responses.create
CreateAttempt ==
    /\ pc = "create"
    /\ \/ \E id \in FreshTaskIds :
            /\ remote' = remote @@ (id :> [status |-> "queued"])
            /\ call' = [call EXCEPT !.task_id = id, !.elapsed = 0]
            /\ obs' = [obs EXCEPT !.creates = @ + 1, !.issued = id,
                                  !.submitted = call.enhanced_query]
            /\ pc' = "poll"
            /\ UNCHANGED researchOut
       \/ \E e \in RemoteErrors :
            /\ obs' = [obs EXCEPT !.creates = @ + 1, !.submitted = call.enhanced_query]
            /\ UNCHANGED remote
            /\ IF StopAfterAttempt(call.attempt)
               THEN FinishResearch(Raised(RetryError(e)))
               ELSE /\ pc' = "backoff"
                    /\ UNCHANGED <<call, researchOut>>
    /\ UNCHANGED <<env, limiterVars, event_loop, clarOut, research_agent, sessions, tool, statusOut, toolOut>>

\* tenacity sleeps wait_exponential between two attempts
Backoff ==
    /\ pc = "backoff"
    /\ call' = [call EXCEPT !.waited = @ + wait_exponential(call.attempt),
                            !.attempt = @ + 1]
    /\ pc' = "create"
    /\ UNCHANGED <<env, limiterVars, event_loop, clarOut, research_agent, sessions, remote, tool, obs,
                   researchOut, statusOut, toolOut>>

\* research(): the id handed to _wait_for_completion is response.id, the id of
\* the task this call submitted
PolledTaskId == call.task_id

\* _wait_for_completion: the exits of the loop that call client.responses.cancel
CancelsOnExit(exit) == IF exit = "deadline" THEN 1 ELSE 0

\* the clock after await asyncio.sleep(self.config.poll_interval)
AfterPollSleep(elapsed) == elapsed + research_agent.poll_interval

\* the clock after await asyncio.sleep(5)
AfterErrorSleep(elapsed) == elapsed + PollErrorBackoff

\* _wait_for_completion: while time.time() - start_time < self.config.timeout
BeforeDeadline(elapsed) == elapsed < research_agent.timeout

\* _wait_for_completion: the except Exception clause around one poll catches
\* every exception raised in the loop body, the ResearchError of a failed
\* task included
PollCatches(e) == TRUE

\* research(): except ResearchError around _wait_for_completion
ResearchCatches(e) == IsResearchError(e)

\* _send_completion_callback: the payload can be built (the last output item
\* has a first content block)
PayloadBuilds(response) ==
    /\ response.output # <<>>
    /\ response.output[Len(response.output)].content # <<>>

\* research() after _wait_for_completion returned, when no callback is sent
ExtractAndReturn(response) ==
    /\ obs' = [obs EXCEPT !.retrieves = @ + 1, !.polled = @ \cup {PolledTaskId},
                          !.sawCompleted = TRUE, !.extracts = @ + 1,
                          !.cancels = @ + CancelsOnExit("completed"),
                          !.cancelled = IF CancelsOnExit("completed") > 0
                                        THEN @ \cup {PolledTaskId} ELSE @]
    /\ FinishResearch(Returned(ExtractResults(response)))

\* _wait_for_completion: one turn of the loop, client.responses.retrieve(task_id)
Poll ==
    /\ pc = "poll"
    /\ BeforeDeadline(call.elapsed)
    /\ \E out \in RetrieveOutcomes(PolledTaskId) :
        IF out.kind = "raise"
        THEN /\ obs' = [obs EXCEPT !.retrieves = @ + 1, !.raised = @ + 1,
                                  !.polled = @ \cup {PolledTaskId}]
             /\ IF PollCatches(out.exc)
                THEN pc' = "error_sleep" /\ UNCHANGED <<call, researchOut>>
                ELSE FinishResearch(Raised(out.exc))
        ELSE IF out.value.status = "completed"
        THEN IF call.callback_url = None
             THEN ExtractAndReturn(out.value)
             ELSE \* final_response.get("status"): the response object of the
                  \* SDK has no get and raises AttributeError; a mapping-like
                  \* response answers
                  \/ /\ obs' = [obs EXCEPT !.retrieves = @ + 1,
                                           !.polled = @ \cup {PolledTaskId},
                                           !.sawCompleted = TRUE,
                                           !.cancels = @ + CancelsOnExit("completed"),
                                           !.cancelled = IF CancelsOnExit("completed") > 0
                                                         THEN @ \cup {PolledTaskId} ELSE @]
                     /\ FinishResearch(Raised(Exc("AttributeError",
                            <<"'Response' object has no attribute 'get'">>)))
                  \/ /\ obs' = [obs EXCEPT !.retrieves = @ + 1,
                                           !.polled = @ \cup {PolledTaskId},
                                           !.sawCompleted = TRUE,
                                           !.cancels = @ + CancelsOnExit("completed"),
                                           !.cancelled = IF CancelsOnExit("completed") > 0
                                                         THEN @ \cup {PolledTaskId} ELSE @]
                     /\ pc' = "callback"
                     /\ call' = [call EXCEPT !.final_response = out.value]
                     /\ UNCHANGED researchOut
        ELSE IF out.value.status = "failed"
        THEN LET e == Exc("ResearchError",
                          FailedTaskMessage(PolledTaskId, out.value.error))
             IN  /\ obs' = [obs EXCEPT !.retrieves = @ + 1,
                                       !.polled = @ \cup {PolledTaskId},
                                       !.sawFailed = TRUE,
                                       !.failedError = out.value.error]
                 /\ IF PollCatches(e)
                    THEN pc' = "error_sleep" /\ UNCHANGED <<call, researchOut>>
                    ELSE IF ResearchCatches(e)
                    THEN FinishResearch(Returned(FailedResult(e)))
                    ELSE FinishResearch(Raised(e))
        ELSE /\ obs' = [obs EXCEPT !.retrieves = @ + 1, !.polled = @ \cup {PolledTaskId}]
             /\ pc' = "poll_sleep"
             /\ UNCHANGED <<call, researchOut>>
    /\ UNCHANGED <<env, limiterVars, event_loop, clarOut, research_agent, sessions, remote, tool, statusOut, toolOut>>

\* await asyncio.sleep(self.config.poll_interval)
PollSleep ==
    /\ pc = "poll_sleep"
    /\ call' = [call EXCEPT !.elapsed = AfterPollSleep(@)]
    /\ pc' = "poll"
    /\ UNCHANGED <<env, limiterVars, event_loop, clarOut, research_agent, sessions, remote, tool, obs,
                   researchOut, statusOut, toolOut>>

\* await asyncio.sleep(5) after an exception in the loop body
ErrorSleep ==
    /\ pc = "error_sleep"
    /\ call' = [call EXCEPT !.elapsed = AfterErrorSleep(@)]
    /\ pc' = "poll"
    /\ UNCHANGED <<env, limiterVars, event_loop, clarOut, research_agent, sessions, remote, tool, obs,
                   researchOut, statusOut, toolOut>>

\* _wait_for_completion after the loop: cancel (its failure swallowed), raise
\* TaskTimeoutError; research() returns it as a failed result
Deadline ==
    /\ pc = "poll"
    /\ ~BeforeDeadline(call.elapsed)
    /\ \E cancel_raises \in BOOLEAN :
        /\ remote' = IF cancel_raises THEN remote ELSE AfterCancel(PolledTaskId)
        /\ obs' = [obs EXCEPT !.cancels = @ + CancelsOnExit("deadline"),
                              !.cancelled = @ \cup {PolledTaskId},
                              !.timeoutAt = call.elapsed,
                              !.cancelRaised = cancel_raises]
    /\ LET e == Exc("TaskTimeoutError",
                    TimeoutMessage(PolledTaskId, research_agent.timeout))
       IN  IF ResearchCatches(e)
           THEN FinishResearch(Returned(FailedResult(e)))
           ELSE FinishResearch(Raised(e))
    /\ UNCHANGED <<env, limiterVars, event_loop, clarOut, research_agent, sessions, tool, statusOut, toolOut>>

\* _send_completion_callback, then _extract_openai_results: every exception
\* of building the payload or of the POST is logged and dropped
Callback ==
    /\ pc = "callback"
    /\ obs' = [obs EXCEPT !.posts = @ + (IF PayloadBuilds(call.final_response)
                                          THEN 1 ELSE 0),
                          !.extracts = @ + 1]
    /\ FinishResearch(Returned(ExtractResults(call.final_response)))
    /\ UNCHANGED <<env, limiterVars, event_loop, clarOut, research_agent, sessions, remote, tool, statusOut, toolOut>>

----------------------------------------------------------------------------
(* DeepResearchAgent._run_open_deep_research *)

OdrTaskId == "uuid4"

\* what manager_agent.run leaves behind: its answer and the steps in its
\* memory, each with its tool calls and, per observation, the URLs in it
OdrStep(calls, observations) == [tool_calls |-> calls, observations |-> observations]
OdrRuns ==
    { [result |-> "answer", steps |-> <<>>],
      [result |-> "answer",
       steps |-> <<OdrStep(<<[name |-> "web_search", query |-> "s1"]>>, <<<<"u1", "u2">>>>),
                   OdrStep(<<[name |-> "visit_page", query |-> ""]>>, <<<<>>, <<"u3">>>>)>>] }

RECURSIVE Concat(_)
Concat(seqs) == IF seqs = <<>> THEN <<>> ELSE Head(seqs) \o Concat(Tail(seqs))

OdrUrls(steps) == Concat([i \in 1..Len(steps) |-> Concat(steps[i].observations)])

OdrCitations(steps) ==
    LET urls == OdrUrls(steps)
    IN  [i \in 1..Len(urls) |->
            [index |-> i, title |-> "Source " \o ToString(i), url |-> urls[i],
             start_char |-> 0, end_char |-> 0]]

OdrSearchQueries(steps) ==
    LET calls == Concat([i \in 1..Len(steps) |-> steps[i].tool_calls])
        kept == SelectSeq(calls, LAMBDA c : c.name \in {"web_search", "search"})
    IN  [i \in 1..Len(kept) |-> kept[i].query]

OdrCompleted(run) ==
    [status |-> "completed", final_report |-> run.result,
     citations |-> OdrCitations(run.steps),
     reasoning_steps |-> Len(run.steps),
     search_queries |-> OdrSearchQueries(run.steps),
     total_steps |-> Len(run.steps),
     task_id |-> OdrTaskId, execution_time |-> 0]

OdrFailed(e) ==
    [status |-> "failed", message |-> e.msg, task_id |-> OdrTaskId, execution_time |-> 0]

\* the exceptions manager_agent.run can end with: one with a message, one
\* whose str() is empty (an exception raised without arguments)
OdrErrors == {Exc("AgentGenerationError", <<"Error in generating model output">>),
              Exc("TimeoutError", <<"">>)}

\* the agent loop runs in the executor and returns, or raises
OdrRun ==
    /\ pc = "odr"
    /\ obs' = [obs EXCEPT !.submitted = call.enhanced_query]
    /\ \/ \E run \in OdrRuns : FinishResearch(Returned(OdrCompleted(run)))
       \/ \E e \in OdrErrors : FinishResearch(Returned(OdrFailed(e)))
    /\ UNCHANGED <<env, limiterVars, event_loop, clarOut, research_agent, sessions, remote, tool, statusOut, toolOut>>

----------------------------------------------------------------------------
(* DeepResearchAgent.get_task_status *)

\* a get_task_status(task_id) call: what its retrieve call did and how it ended
StatusCall(task_id, retrieve, out) ==
    [task_id |-> task_id, retrieve |-> retrieve, outcome |-> out]

\* get_task_status: except Exception around the retrieve call
StatusCatches(e) == TRUE

\* the ways get_task_status(task_id) can end
GetTaskStatusOutcomes(agent, task_id) ==
    IF agent.provider = "openai"
    THEN {IF out.kind = "return"
          THEN StatusCall(task_id, "returned", Returned(StatusRecord(task_id, out.value)))
          ELSE StatusCall(task_id, "raised",
                          IF StatusCatches(out.exc)
                          THEN Returned(StatusErrorRecord(task_id, out.exc))
                          ELSE out)
          : out \in RetrieveOutcomes(task_id)}
    ELSE IF agent.provider = "open-deep-research"
    THEN {StatusCall(task_id, "not called", Returned(StatusUnknownRecord(task_id)))}
    ELSE {StatusCall(task_id, "not called",
              Returned(StatusErrorRecord(task_id,
                  Exc("", <<"Provider ", agent.provider, " not supported">>))))}

\* a program calls agent.get_task_status(task_id)
GetTaskStatus(task_id) ==
    /\ pc = "idle"
    /\ HasAgent
    /\ statusOut' \in GetTaskStatusOutcomes(research_agent, task_id)
    /\ researchOut' = NoOutcome
    /\ obs' = NoObs
    /\ UNCHANGED <<env, limiterVars, event_loop, clarOut, research_agent, sessions, remote, pc, tool, call, toolOut>>

----------------------------------------------------------------------------
(* ClarificationManager *)

QuestionLists == {<<"Q1", "Q2", "Q3">>}
AnswerLists == {<<>>, <<"a1", " ">>}

\* TriageAgent.analyze_query: its except Exception clause catches whatever
\* the model call, or the reading of its reply, raises
TriageCatches(e) == TRUE

\* what the triage model does: it raises, or replies with text that is not
\* JSON, with JSON that is not an object, or with an object
TriageReplies ==
    {[kind |-> "raised", exc |-> e] : e \in RemoteErrors}
    \cup {[kind |-> "not json"], [kind |-> "not an object"]}
    \cup {[kind |-> "object", value |-> v] : v \in
            {[needs_clarification |-> FALSE, reasoning |-> <<"clear">>,
              potential_clarifications |-> <<>>, query_assessment |-> <<"specific">>],
             [reasoning |-> <<"no verdict">>]}
            \cup {[needs_clarification |-> TRUE, reasoning |-> <<"ambiguous">>,
                   potential_clarifications |-> qs, query_assessment |-> <<"vague">>]
                  : qs \in QuestionLists}}

\* TriageAgent.analyze_query for one behaviour of the model
AnalyzeQuery(reply) ==
    LET failed(e) ==
            IF TriageCatches(e)
            THEN Returned([needs_clarification |-> FALSE,
                           reasoning |-> <<"Triage agent error: ">> \o e.msg,
                           potential_clarifications |-> <<>>,
                           query_assessment |-> <<"Error during assessment">>])
            ELSE Raised(e)
    IN  IF reply.kind = "raised" THEN failed(reply.exc)
        ELSE IF reply.kind = "not json"
        THEN Returned([needs_clarification |-> FALSE,
                       reasoning |-> <<"Could not parse triage response, proceeding with original query">>,
                       potential_clarifications |-> <<>>,
                       query_assessment |-> <<"Unable to assess">>])
        ELSE IF reply.kind = "not an object"
        THEN failed(Exc("AttributeError", <<"'list' object has no attribute 'get'">>))
        ELSE Returned(reply.value)

\* TriageAgent.analyze_query: how it can end, with the behaviour of the model
\* that led there
TriageOutcomes ==
    {[reply |-> reply.kind, outcome |-> AnalyzeQuery(reply)] : reply \in TriageReplies}

\* dict.get(key, default)
Get(d, key, default) == IF key \in DOMAIN d THEN d[key] ELSE default

\* uuid4: an id no session has (which one is immaterial: handed out in
\* order), for as long as fewer than `limit` sessions are open
FreshSessionIds(limit) ==
    {SessionId(n) : n \in {Cardinality(DOMAIN sessions) + 1} \cap (1..limit)}

ClarificationSession(session_id, original_query, questions) ==
    [session_id |-> session_id, original_query |-> original_query,
     questions |-> questions, answers |-> <<>>]

\* self._sessions[session_id] = session
Put(table, key, value) ==
    [k \in DOMAIN table \cup {key} |-> IF k = key THEN value ELSE table[k]]

\* ClarificationManager.start_clarification: whether triage was called and
\* what its model did, how the call ends and the session table it leaves
StartClarificationOutcomes(agent, user_query, limit) ==
    IF ~agent.enable_clarification
    THEN {[triage |-> "not called",
           outcome |-> Returned([needs_clarification |-> FALSE,
                                 reasoning |-> <<"Clarification is disabled in configuration">>]),
           sessions |-> sessions]}
    ELSE {[triage |-> t.reply, outcome |-> t.outcome, sessions |-> sessions] :
            t \in {t \in TriageOutcomes :
                     \/ t.outcome.kind = "raise"
                     \/ ~Get(t.outcome.value, "needs_clarification", FALSE)}}
         \cup
         {LET questions == Get(t.outcome.value, "potential_clarifications", <<>>)
          IN  [triage |-> t.reply,
               outcome |-> Returned(Put(Put(Put(t.outcome.value,
                                                "session_id", sid),
                                            "questions", questions),
                                        "total_questions", Len(questions))),
               sessions |-> Put(sessions, sid,
                                ClarificationSession(sid, user_query, questions))] :
            t \in {t \in TriageOutcomes :
                     /\ t.outcome.kind = "return"
                     /\ Get(t.outcome.value, "needs_clarification", FALSE)},
            sid \in FreshSessionIds(limit)}

\* the session has reached the answered state: is_complete = true
Answered(session) == Len(session.answers) >= Len(session.questions)

\* ClarificationSession.to_dict
to_dict(session) ==
    [session_id |-> session.session_id,
     original_query |-> session.original_query,
     questions |-> session.questions,
     answers |-> session.answers,
     total_questions |-> Len(session.questions),
     answered_questions |-> Len(session.answers),
     is_complete |-> Answered(session)]

\* add_answers: what it returns for an id that names no session
SessionNotFound(session_id) == [error |-> <<"Session ", session_id, " not found">>]

\* add_answers: session.answers = answers
RecordedAnswers(old, answers) == answers

\* ClarificationManager.add_answers: what it returns and the table it leaves
AddAnswers(session_id, answers) ==
    IF session_id \notin DOMAIN sessions
    THEN [result |-> SessionNotFound(session_id), sessions |-> sessions]
    ELSE LET session == sessions[session_id]
             recorded == RecordedAnswers(session.answers, answers)
         IN  [result |-> [session_id |-> session_id, status |-> "answers_recorded",
                          total_questions |-> Len(session.questions),
                          answered_questions |-> Len(recorded),
                          is_complete |-> Answered([session EXCEPT !.answers = recorded])],
              sessions |-> [sessions EXCEPT ![session_id].answers = recorded]]

\* get_enriched_query: the question/answer pairs handed to enrich_query
QaPairs(session) ==
    [i \in 1..Len(session.questions) |->
        [question |-> session.questions[i],
         answer |-> IF i <= Len(session.answers) THEN session.answers[i] ELSE ""]]

\* str.strip() of the answers tried: blank or not
Blank(text) == text \in {"", " "}

\* ClarifierAgent.enrich_query: the context line written for one pair
ContextLine(qa) ==
    "Q: " \o qa.question \o " A: "
    \o (IF Blank(qa.answer) THEN "[No specific preference provided]" ELSE qa.answer)

\* ClarifierAgent.enrich_query: the list enriched_context
ContextLines(qa_pairs) == [i \in 1..Len(qa_pairs) |-> ContextLine(qa_pairs[i])]

\* ClarifierAgent.enrich_query: the context lines joined into the prompt
RECURSIVE EnrichedContext(_)
EnrichedContext(qa_pairs) ==
    IF qa_pairs = <<>> THEN ""
    ELSE ContextLine(Head(qa_pairs)) \o "; " \o EnrichedContext(Tail(qa_pairs))

\* ClarifierAgent.enrich_query: its except Exception clause catches whatever
\* the model call raises
EnrichCatches(e) == TRUE

\* ClarifierAgent.enrich_query: what the model did and how the call ends: the
\* model's rewriting of the prompt, an empty reply, or, when the model call
\* raises, the original query
EnrichOutcomes(user_query, qa_pairs) ==
    {[model |-> "answered", qa_pairs |-> qa_pairs, context |-> ContextLines(qa_pairs),
      outcome |-> Returned("enriched: " \o user_query \o " | " \o EnrichedContext(qa_pairs))],
     [model |-> "answered", qa_pairs |-> qa_pairs, context |-> ContextLines(qa_pairs),
      outcome |-> Returned("")]}
    \cup {[model |-> "raised", qa_pairs |-> qa_pairs, context |-> ContextLines(qa_pairs),
           outcome |-> IF EnrichCatches(e) THEN Returned(user_query) ELSE Raised(e)]
          : e \in RemoteErrors}

\* ClarificationManager.get_enriched_query, on the table `table`
EnrichedQueries(table, session_id) ==
    IF session_id \notin DOMAIN table
    THEN {[model |-> "not called", qa_pairs |-> <<>>, context |-> <<>>,
           outcome |-> Returned(None)]}
    ELSE EnrichOutcomes(table[session_id].original_query, QaPairs(table[session_id]))

\* get_enriched_query: the clean-up of the session is commented out
\* (# del self._sessions[session_id]), so the table is left as it was
SessionsAfterEnrichment(table, session_id) == table

----------------------------------------------------------------------------
(* mcp_server: the three tool operations *)

\* ResearchConfig.from_env, config.validate and DeepResearchAgent(config):
\* the exception they end with, or none
InitErrors(e) ==
    IF e.provider \notin Providers
    THEN {Exc("ConfigurationError", <<"Provider '", e.provider, "' is not supported">>)}
    ELSE IF e.provider = "openai" /\ e.api_key \notin {None, "sk-key"}
    THEN {Exc("ConfigurationError", <<"Invalid API key format">>)}
    ELSE IF e.timeout <= 0
    THEN {Exc("ConfigurationError", <<"Timeout must be positive">>)}
    ELSE IF e.poll_interval <= 0
    THEN {Exc("ConfigurationError", <<"Poll interval must be positive">>)}
    ELSE IF e.max_retries < 0
    THEN {Exc("ConfigurationError", <<"Max retries must be non-negative">>)}
    ELSE IF e.api_key = None
    THEN {Exc("OpenAIError", <<"The api_key client option must be set">>)}
    ELSE {}

\* if not research_agent: ... research_agent = DeepResearchAgent(config)
AgentAfterInit == IF HasAgent \/ InitErrors(env) # {} THEN research_agent ELSE env
InitFails == ~HasAgent /\ InitErrors(env) # {}
InitFailure ==
    Returned(<<"Failed to initialize research agent: ">>
             \o (CHOOSE e \in InitErrors(env) : TRUE).msg)

\* the outermost except clauses of a tool operation catch every exception
ToolCatches(e) == TRUE

\* the text of a tool for an exception raised below it
ToolErrorText(name, e) ==
    IF name = "deep_research"
    THEN (IF IsResearchError(e) THEN <<"Research error: ">> ELSE <<"Unexpected error: ">>)
         \o e.msg
    ELSE IF name = "research_with_context"
    THEN <<"Error performing enhanced research: ">> \o e.msg
    ELSE <<"Error checking status: ">> \o e.msg

ToolRaise(name, e) ==
    IF ToolCatches(e) THEN Returned(ToolErrorText(name, e)) ELSE Raised(e)

CitationLines(citations) ==
    Concat([i \in 1..Len(citations) |->
              <<ToString(citations[i].index), ". [", citations[i].title, "](",
                citations[i].url, ")">>])

\* the report a tool formats from a completed result
ReportText(t, result) ==
    (IF t.name = "deep_research"
     THEN <<"# Research Report: ", t.query>>
     ELSE <<"# Enhanced Research Report", t.query, ToString(Len(t.answers))>>)
    \o <<result.final_report, ToString(result.total_steps),
         ToString(Len(result.search_queries)), ToString(Len(result.citations)),
         result.task_id>>
    \o (IF t.name = "deep_research" THEN <<>> ELSE <<t.session_id>>)
    \o CitationLines(result.citations)

\* what the tool returns once research() has ended with `out`
ToolOutcome(t, out) ==
    IF out.kind = "raise"
    THEN ToolRaise(t.name, out.exc)
    ELSE IF out.value.status = "completed"
    THEN Returned(ReportText(t, out.value))
    ELSE Returned(<<"Research failed: ">> \o Get(out.value, "message", <<"Unknown error">>))

\* the text of deep_research(request_clarification=True)
ClarificationText(q, result) ==
    IF ~Get(result, "needs_clarification", FALSE)
    THEN <<"# Query Analysis", q>>
         \o Get(result, "query_assessment", <<"Query is sufficient for research">>)
         \o Get(result, "reasoning", <<"Proceed with research directly">>)
    ELSE <<"# Clarifying Questions Needed", q>>
         \o Get(result, "reasoning", <<"Additional context will improve research quality">>)
         \o <<Get(result, "session_id", "")>>
         \o Get(result, "questions", <<>>)

ClearOutcomes ==
    /\ researchOut' = NoOutcome
    /\ statusOut' = NoStatusCall
    /\ obs' = NoObs

\* if request_clarification: ... return: research is started only below it
StartsResearch(request_clarification) == ~request_clarification

\* the arguments of a call of deep_research
DeepResearchCall(q, request_clarification, ctx) ==
    [name |-> "deep_research", query |-> q,
     request_clarification |-> request_clarification, ctx |-> ctx, heartbeat |-> ctx]

\* deep_research(query, request_clarification, ctx)
DeepResearch(q, request_clarification, ctx) ==
    /\ pc = "idle"
    /\ tool' = DeepResearchCall(q, request_clarification, ctx)
    /\ IF InitFails
       THEN /\ toolOut' = InitFailure
            /\ ClearOutcomes
            /\ UNCHANGED <<research_agent, sessions, pc, call>>
       ELSE /\ research_agent' = AgentAfterInit
            /\ IF ~StartsResearch(request_clarification)
               THEN /\ \E r \in StartClarificationOutcomes(AgentAfterInit, q, NumSessions) :
                        /\ sessions' = r.sessions
                        /\ toolOut' = IF r.outcome.kind = "raise"
                                      THEN ToolRaise("deep_research", r.outcome.exc)
                                      ELSE Returned(ClarificationText(q, r.outcome.value))
                    /\ ClearOutcomes
                    /\ UNCHANGED <<pc, call>>
               ELSE /\ BeginResearch(AgentAfterInit, "deep_research", q, None)
                    /\ toolOut' = NoOutcome
                    /\ UNCHANGED sessions
    /\ UNCHANGED <<env, limiterVars, event_loop, clarOut, remote>>

\* research_with_context(session_id, answers, ctx)
ResearchWithContext(session_id, answers, ctx) ==
    /\ pc = "idle"
    /\ IF InitFails
       THEN /\ toolOut' = InitFailure
            /\ ClearOutcomes
            /\ tool' = NoTool
            /\ UNCHANGED <<research_agent, sessions, pc, call>>
       ELSE LET added == AddAnswers(session_id, answers)
            IN  /\ research_agent' = AgentAfterInit
                /\ sessions' = IF "error" \in DOMAIN added.result
                               THEN added.sessions
                               ELSE SessionsAfterEnrichment(added.sessions, session_id)
                /\ IF "error" \in DOMAIN added.result
                   THEN /\ toolOut' = Returned(<<"Error with clarification session: ">>
                                               \o added.result.error)
                        /\ ClearOutcomes
                        /\ tool' = NoTool
                        /\ UNCHANGED <<pc, call>>
                   ELSE \E enriched \in EnrichedQueries(added.sessions, session_id) :
                        LET enriched_query == IF enriched.outcome.kind = "return"
                                              THEN enriched.outcome.value ELSE None
                        IN
                        IF enriched.outcome.kind = "raise"
                        THEN /\ toolOut' = ToolRaise("research_with_context",
                                                     enriched.outcome.exc)
                             /\ ClearOutcomes
                             /\ tool' = NoTool
                             /\ UNCHANGED <<pc, call>>
                        ELSE IF enriched_query \in {None, ""}
                        THEN /\ toolOut' = Returned(<<"Could not retrieve enriched query for session ",
                                                      session_id, ". Please check the session ID.">>)
                             /\ ClearOutcomes
                             /\ tool' = NoTool
                             /\ UNCHANGED <<pc, call>>
                        ELSE /\ BeginResearch(AgentAfterInit, "research_with_context",
                                              enriched_query, None)
                             /\ tool' = [name |-> "research_with_context",
                                         query |-> enriched_query,
                                         session_id |-> session_id, answers |-> answers,
                                         ctx |-> ctx, heartbeat |-> ctx]
                             /\ toolOut' = NoOutcome
    /\ UNCHANGED <<env, limiterVars, event_loop, clarOut, remote>>

\* finally: heartbeat_task.cancel(); then the result of research() is
\* formatted, or its exception caught at the outermost level
ToolResume ==
    /\ pc = "tool_resume"
    /\ toolOut' = ToolOutcome(tool, researchOut)
    /\ tool' = NoTool
    /\ pc' = "idle"
    /\ researchOut' = NoOutcome
    /\ obs' = NoObs
    /\ UNCHANGED <<env, limiterVars, event_loop, clarOut, research_agent, sessions, remote, call, statusOut>>

\* the text of research_status for an outcome of get_task_status
StatusText(task_id, out) ==
    IF out.kind = "raise"
    THEN ToolRaise("research_status", out.exc)
    ELSE IF out.value.status = "error"
    THEN Returned(<<"Error checking status: ">>
                  \o Get(out.value, "error", <<"Unknown error">>))
    ELSE Returned(<<"Task ", task_id, " status: ", out.value.status>>)

\* research_status(task_id)
ResearchStatus(task_id) ==
    /\ pc = "idle"
    /\ IF ~HasAgent
       THEN /\ toolOut' = Returned(<<"Research agent not initialized. Please run a research query first.">>)
            /\ statusOut' = NoStatusCall
       ELSE \E status \in GetTaskStatusOutcomes(research_agent, task_id) :
            /\ statusOut' = status
            /\ toolOut' = StatusText(task_id, status.outcome)
    /\ researchOut' = NoOutcome
    /\ obs' = NoObs
    /\ tool' = NoTool
    /\ UNCHANGED <<env, limiterVars, event_loop, clarOut, research_agent, sessions, remote, pc, call>>

----------------------------------------------------------------------------
(* The agent used as a library *)

Next ==
    \/ \E q \in Queries, cb \in CallbackUrls : Research(q, cb)
    \/ CreateAttempt
    \/ Backoff
    \/ Poll
    \/ PollSleep
    \/ ErrorSleep
    \/ Deadline
    \/ Callback
    \/ OdrRun
    \/ \E id \in TaskIds \cup {FakeTaskId} : GetTaskStatus(id)
    \/ \E id \in TaskIds : ProviderStep(id)

Spec == Init /\ [][Next]_vars

----------------------------------------------------------------------------
(* Polling under a timeout that leaves room for several poll errors *)

PollingTimeout == MaxErrorRuns * PollErrorBackoff + 1

InitPolling ==
    /\ env \in {Config("openai", PollingTimeout, i, SubmitAttempts, FALSE, "sk-key") :
                  i \in PollIntervals}
    /\ research_agent = env
    /\ sessions = <<>>
    /\ remote = <<>>
    /\ pc = "idle"
    /\ tool = NoTool
    /\ call = IdleCall
    /\ obs = NoObs
    /\ researchOut = NoOutcome
    /\ statusOut = NoStatusCall
    /\ clarOut = NoClarCall
    /\ toolOut = NoOutcome
    /\ clock = 0
    /\ rate_limiter = NoLimiter
    /\ callers = [c \in Callers |-> IdleCaller]
    /\ granted = 0
    /\ event_loop = IdleLoop

NextPolling ==
    \/ \E q \in Queries : Research(q, None)
    \/ CreateAttempt
    \/ Backoff
    \/ Poll
    \/ PollSleep
    \/ ErrorSleep
    \/ Deadline
    \/ \E id \in TaskIds : ProviderStep(id)

SpecPolling == InitPolling /\ [][NextPolling]_vars

----------------------------------------------------------------------------
(* The MCP server: the agent is built by the first tool call that needs it *)

ToolTimeout == MaxTimeout - 3
ToolEnvs ==
    {Config(p, ToolTimeout, MaxPollInterval, SubmitAttempts, c, "sk-key") :
        p \in Providers, c \in BOOLEAN}
    \cup {Config("bogus", ToolTimeout, MaxPollInterval, SubmitAttempts, FALSE, "sk-key"),
          Config("openai", 0, MaxPollInterval, SubmitAttempts, FALSE, "sk-key"),
          Config("openai", ToolTimeout, MaxPollInterval, SubmitAttempts, FALSE, "bad-key"),
          Config("open-deep-research", ToolTimeout, MaxPollInterval, SubmitAttempts, FALSE, None)}

InitTools ==
    /\ env \in ToolEnvs
    /\ research_agent = NoAgent
    /\ sessions = <<>>
    /\ remote = <<>>
    /\ pc = "idle"
    /\ tool = NoTool
    /\ call = IdleCall
    /\ obs = NoObs
    /\ researchOut = NoOutcome
    /\ statusOut = NoStatusCall
    /\ clarOut = NoClarCall
    /\ toolOut = NoOutcome
    /\ clock = 0
    /\ rate_limiter = NoLimiter
    /\ callers = [c \in Callers |-> IdleCaller]
    /\ granted = 0
    /\ event_loop = IdleLoop

NextTools ==
    \/ \E q \in Queries, rc \in BOOLEAN, ctx \in BOOLEAN : DeepResearch(q, rc, ctx)
    \/ \E sid \in SessionIds \cup {UnknownSessionId}, answers \in AnswerLists,
          ctx \in BOOLEAN : ResearchWithContext(sid, answers, ctx)
    \/ \E id \in TaskIds \cup {FakeTaskId} : ResearchStatus(id)
    \/ ToolResume
    \/ CreateAttempt
    \/ Backoff
    \/ Poll
    \/ PollSleep
    \/ ErrorSleep
    \/ Deadline
    \/ OdrRun
    \/ \E id \in TaskIds : ProviderStep(id)

SpecTools == InitTools /\ [][NextTools]_vars

----------------------------------------------------------------------------
(* _extract_openai_results applied to the responses a caller can hand it *)

\* the annotations of a content block: every sequence of at most
\* MaxAnnotations of two sample annotations
AnnotationLists ==
    UNION {[1..n -> {Annotation("T1", "u1", 0, 3), Annotation("T2", "u2", 4, 9)}]
           : n \in 0..MaxAnnotations}

\* the content of the last output item: no block, one block, or two blocks
\* of which only the first is read
ContentLists ==
    {<<>>}
    \cup {<<[text |-> t, annotations |-> a]>> : t \in {"report", ""}, a \in AnnotationLists}
    \cup {<<[text |-> "report", annotations |-> a],
            [text |-> "more", annotations |-> <<Annotation("T3", "u3", 0, 1)>>]>>
          : a \in AnnotationLists}

ExtractOutputs ==
    {<<>>}
    \cup {prefix \o <<MessageItem(c)>> :
            prefix \in {<<>>, <<SearchItem("s1")>>, <<ReasoningItem, SearchItem("s1")>>,
                        <<ReasoningItem>>,
                        <<SearchItem("s2"), ReasoningItem, SearchItem("s1"), SearchItem("s2")>>,
                        <<ReasoningItemBare, OpenPageItem, ReasoningItem>>,
                        <<SearchItemBare, SearchItem("s1")>>},
            c \in ContentLists}

\* the error payloads of a failed response: none, mapping-like ones with and
\* without message and code, and an object without get, known by its str()
ExtractErrorPayloads ==
    ErrorPayloads \cup {[shape |-> "map", code |-> "E1"], [shape |-> "str", text |-> "X"]}

ExtractInputs ==
    {Response(id, "completed", [shape |-> "none"], o) : id \in TaskIds, o \in ExtractOutputs}
    \cup {Response(id, "failed", e, <<>>) : id \in TaskIds, e \in ExtractErrorPayloads}

\* agent._extract_openai_results(response), applied once to a response: the
\* function reads nothing but its argument
ExtractOpenaiResults(response) ==
    /\ pc = "idle"
    /\ researchOut = NoOutcome
    /\ call' = [IdleCall EXCEPT !.final_response = response]
    /\ researchOut' = Returned(ExtractResults(response))
    /\ UNCHANGED <<env, limiterVars, event_loop, clarOut, research_agent, sessions, remote, pc, tool, obs,
                   statusOut, toolOut>>

NextExtract == \E response \in ExtractInputs : ExtractOpenaiResults(response)

SpecExtract == Init /\ [][NextExtract]_vars

----------------------------------------------------------------------------
(* The clarification operations of the agent, called directly *)

DirectQueries == {"q", "another q"}
DirectAnswerLists ==
    {<<>>, <<"a1", "a2">>, <<"a3">>, <<"a1", "a2", "a3">>, <<"a1", " ">>,
     <<"a1", "a2", "a3", "a4">>}

\* the agent is built from a valid configuration, with clarification enabled
\* or not
InitClarify ==
    /\ Init
    /\ env = Config("openai", MaxTimeout, MaxPollInterval, MaxRetriesCfg,
                    env.enable_clarification, "sk-key")

\* agent.start_clarification(user_query)
StartClarification(user_query) ==
    /\ pc = "idle"
    /\ HasAgent
    /\ \E r \in StartClarificationOutcomes(research_agent, user_query, NumDirectSessions) :
        /\ sessions' = r.sessions
        /\ clarOut' = [op |-> "start_clarification", query |-> user_query,
                       before |-> sessions, triage |-> r.triage,
                       outcome |-> r.outcome]
    /\ UNCHANGED <<env, limiterVars, event_loop, research_agent, remote, pc, tool, call, obs,
                   researchOut, statusOut, toolOut>>

\* agent.add_clarification_answers(session_id, answers)
AddClarificationAnswers(session_id, answers) ==
    /\ pc = "idle"
    /\ HasAgent
    /\ LET added == AddAnswers(session_id, answers)
       IN  /\ sessions' = added.sessions
           /\ clarOut' = [op |-> "add_answers", session_id |-> session_id,
                          answers |-> answers, before |-> sessions,
                          outcome |-> Returned(added.result)]
    /\ UNCHANGED <<env, limiterVars, event_loop, research_agent, remote, pc, tool, call, obs,
                   researchOut, statusOut, toolOut>>

\* agent.get_enriched_query(session_id)
GetEnrichedQuery(session_id) ==
    /\ pc = "idle"
    /\ HasAgent
    /\ \E enriched \in EnrichedQueries(sessions, session_id) :
        clarOut' = [op |-> "get_enriched_query", session_id |-> session_id,
                    before |-> sessions, model |-> enriched.model,
                    qa_pairs |-> enriched.qa_pairs, context |-> enriched.context,
                    outcome |-> enriched.outcome]
    /\ sessions' = IF session_id \in DOMAIN sessions
                   THEN SessionsAfterEnrichment(sessions, session_id) ELSE sessions
    /\ UNCHANGED <<env, limiterVars, event_loop, research_agent, remote, pc, tool, call, obs,
                   researchOut, statusOut, toolOut>>

NextClarify ==
    \/ \E q \in DirectQueries : StartClarification(q)
    \/ \E sid \in DirectSessionIds \cup {UnknownSessionId}, answers \in DirectAnswerLists :
          AddClarificationAnswers(sid, answers)
    \/ \E sid \in DirectSessionIds \cup {UnknownSessionId} : GetEnrichedQuery(sid)

SpecClarify == InitClarify /\ [][NextClarify]_vars

----------------------------------------------------------------------------
(* One clarification session, of any number of questions, and the records
   add_answers and to_dict give of it *)

SessionQuestionLists == {<<>>, <<"Q1">>, <<"Q1", "Q2", "Q3">>}

\* the state after start_clarification opened a session on the questions of
\* the triage reply, which may be none
InitSession ==
    /\ env = Config("openai", MaxTimeout, MaxPollInterval, SubmitAttempts, TRUE, "sk-key")
    /\ research_agent = env
    /\ \E questions \in SessionQuestionLists :
          sessions = Put(<<>>, SessionId(1),
                         ClarificationSession(SessionId(1), "q", questions))
    /\ remote = <<>>
    /\ pc = "idle"
    /\ tool = NoTool
    /\ call = IdleCall
    /\ obs = NoObs
    /\ researchOut = NoOutcome
    /\ statusOut = NoStatusCall
    /\ clarOut = NoClarCall
    /\ toolOut = NoOutcome
    /\ clock = 0
    /\ rate_limiter = NoLimiter
    /\ callers = [c \in Callers |-> IdleCaller]
    /\ granted = 0
    /\ event_loop = IdleLoop

\* session.to_dict() on a session of the table
ToDict(session_id) ==
    /\ pc = "idle"
    /\ session_id \in DOMAIN sessions
    /\ clarOut' = [op |-> "to_dict", session_id |-> session_id, before |-> sessions,
                   outcome |-> Returned(to_dict(sessions[session_id]))]
    /\ UNCHANGED <<env, limiterVars, event_loop, research_agent, sessions, remote, pc, tool,
                   call, obs, researchOut, statusOut, toolOut>>

NextSession ==
    \/ \E sid \in {SessionId(1), UnknownSessionId}, answers \in DirectAnswerLists :
          AddClarificationAnswers(sid, answers)
    \/ \E sid \in {SessionId(1)} : ToDict(sid)

SpecSession == InitSession /\ [][NextSession]_vars

----------------------------------------------------------------------------
(* The rate limiter: a token bucket shared by coroutines of one event loop.
   Every statement of acquire is a step of its own, so that the steps of
   concurrent callers interleave in every way the lock allows. *)

\* RateLimiter.__init__(tokens_per_minute) at time now; refill_rate is in
\* units per tick, which is tokens_per_minute / 60.0 tokens per second
RateLimiter(tokens_per_minute, now) ==
    [capacity |-> tokens_per_minute * Scale,
     tokens |-> tokens_per_minute * Scale,
     refill_rate |-> tokens_per_minute,
     last_refill |-> now,
     lock |-> Unlocked,
     created |-> now]

\* tokens_to_add = (now - self.last_refill) * self.refill_rate
TokensToAdd(l, now) == (now - l.last_refill) * l.refill_rate

\* min(self.capacity, self.tokens + tokens_to_add)
Refilled(l, tokens_to_add) == Min(l.capacity, l.tokens + tokens_to_add)

\* if self.tokens >= tokens
Admits(l, tokens) == l.tokens >= tokens * Scale

\* self.tokens -= tokens
Debited(l, tokens) == l.tokens - tokens * Scale

\* async with self._lock: the caller enters when no caller holds the lock
LockFree(l) == l.lock = Unlocked

CeilDiv(a, b) == (a + b - 1) \div b

\* wait_and_acquire: min(max(sleep_for, 0.05), 1.0), in ticks
SleepTicks(l, tokens) ==
    LET needed == Max(0, tokens * Scale - l.tokens)
        sleep_for == IF l.refill_rate <= 0 THEN MinSleepTicks
                     ELSE CeilDiv(needed, l.refill_rate)
    IN  Min(Max(sleep_for, MinSleepTicks), MaxSleepTicks)

\* the token counts callers ask for
AcquireRequests(l) == {1, l.capacity \div Scale}
WaitRequests == {1, 2, MaxSleepTicks + 5}

At(c, where) == callers[c].pc = where
Goto(c, where) == [callers EXCEPT ![c].pc = where]

\* limiter = RateLimiter(tokens_per_minute)
Construct(tokens_per_minute) ==
    /\ rate_limiter = NoLimiter
    /\ rate_limiter' = RateLimiter(tokens_per_minute, clock)
    /\ granted' = 0
    /\ UNCHANGED <<env, research_agent, sessions, remote, pc, tool, call, obs,
                   researchOut, statusOut, clarOut, toolOut, clock, callers,
                   event_loop>>

\* what the limiter spec leaves alone
AgentUnchanged ==
    UNCHANGED <<env, research_agent, sessions, remote, pc, tool, call, obs,
                researchOut, statusOut, clarOut, toolOut, event_loop>>

\* a coroutine calls limiter.acquire(tokens) or limiter.wait_and_acquire(tokens)
CallLimiter(c, op, tokens) ==
    /\ rate_limiter # NoLimiter
    /\ callers[c].pc \in {"idle", "returned"}
    /\ callers[c].calls < MaxCalls
    /\ callers' = [callers EXCEPT ![c] =
                     [pc |-> "lock", calls |-> callers[c].calls + 1,
                      op |-> op, tokens |-> tokens,
                      now |-> None, tokens_to_add |-> None, wake |-> None,
                      before |-> None, available |-> None, left |-> None,
                      result |-> None, debited |-> 0]]
    /\ UNCHANGED <<clock, rate_limiter, granted>>
    /\ AgentUnchanged

CallAcquire(c, tokens) == CallLimiter(c, "acquire", tokens)
CallWaitAndAcquire(c, tokens) == CallLimiter(c, "wait_and_acquire", tokens)

\* acquire: async with self._lock
Lock(c) ==
    /\ At(c, "lock")
    /\ LockFree(rate_limiter)
    /\ rate_limiter' = [rate_limiter EXCEPT !.lock = c]
    /\ callers' = [callers EXCEPT ![c].pc = "now",
                                  ![c].before = [tokens |-> rate_limiter.tokens,
                                                 last_refill |-> rate_limiter.last_refill]]
    /\ UNCHANGED <<clock, granted>>
    /\ AgentUnchanged

\* acquire: now = time.time(); tokens_to_add = ...
ReadClock(c) ==
    /\ At(c, "now")
    /\ callers' = [callers EXCEPT ![c].pc = "refill",
                                  ![c].now = clock,
                                  ![c].tokens_to_add = TokensToAdd(rate_limiter, clock)]
    /\ UNCHANGED <<clock, rate_limiter, granted>>
    /\ AgentUnchanged

\* acquire: self.tokens = min(self.capacity, self.tokens + tokens_to_add)
Refill(c) ==
    /\ At(c, "refill")
    /\ rate_limiter' = [rate_limiter EXCEPT
                          !.tokens = Refilled(rate_limiter, callers[c].tokens_to_add)]
    /\ callers' = Goto(c, "stamp")
    /\ UNCHANGED <<clock, granted>>
    /\ AgentUnchanged

\* acquire: self.last_refill = now
Stamp(c) ==
    /\ At(c, "stamp")
    /\ rate_limiter' = [rate_limiter EXCEPT !.last_refill = callers[c].now]
    /\ callers' = Goto(c, "debit")
    /\ UNCHANGED <<clock, granted>>
    /\ AgentUnchanged

\* acquire: the test, the debit and the return, which leaves the lock;
\* wait_and_acquire returns when acquire returned True and goes on otherwise
Debit(c) ==
    /\ At(c, "debit")
    /\ LET me == callers[c]
           ok == Admits(rate_limiter, me.tokens)
           paid == IF ok THEN me.tokens * Scale ELSE 0
       IN  /\ rate_limiter' = [rate_limiter EXCEPT
                                 !.tokens = IF ok THEN Debited(rate_limiter, me.tokens) ELSE @,
                                 !.lock = Unlocked]
           /\ granted' = granted + paid
           /\ callers' = [callers EXCEPT
                            ![c].pc = IF ok \/ me.op = "acquire"
                                      THEN "returned" ELSE "estimate_lock",
                            ![c].available = rate_limiter.tokens,
                            ![c].left = rate_limiter'.tokens,
                            ![c].result = ok,
                            ![c].debited = @ + paid]
    /\ UNCHANGED clock
    /\ AgentUnchanged

\* wait_and_acquire: async with self._lock
EstimateLock(c) ==
    /\ At(c, "estimate_lock")
    /\ LockFree(rate_limiter)
    /\ rate_limiter' = [rate_limiter EXCEPT !.lock = c]
    /\ callers' = Goto(c, "estimate")
    /\ UNCHANGED <<clock, granted>>
    /\ AgentUnchanged

\* wait_and_acquire: needed, sleep_for, and the start of asyncio.sleep
Estimate(c) ==
    /\ At(c, "estimate")
    /\ rate_limiter' = [rate_limiter EXCEPT !.lock = Unlocked]
    /\ callers' = [callers EXCEPT
                     ![c].pc = "sleep",
                     ![c].wake = clock + SleepTicks(rate_limiter, callers[c].tokens)]
    /\ UNCHANGED <<clock, granted>>
    /\ AgentUnchanged

\* wait_and_acquire: asyncio.sleep ends, no earlier than asked
Wake(c) ==
    /\ At(c, "sleep")
    /\ clock >= callers[c].wake
    /\ callers' = Goto(c, "lock")
    /\ UNCHANGED <<clock, rate_limiter, granted>>
    /\ AgentUnchanged

Sleeping(c) == At(c, "sleep") /\ clock < callers[c].wake

\* time passes; past MaxClock only to end the sleep of a caller
Advance ==
    /\ clock < MaxClock \/ \E c \in Callers : Sleeping(c)
    /\ clock' = clock + 1
    /\ UNCHANGED <<rate_limiter, callers, granted>>
    /\ AgentUnchanged

\* the steps of acquire
AcquireRuns(c) ==
    \/ Lock(c)
    \/ ReadClock(c)
    \/ Refill(c)
    \/ Stamp(c)
    \/ Debit(c)

\* the steps of wait_and_acquire between two calls of acquire
WaitRuns(c) ==
    \/ EstimateLock(c)
    \/ Estimate(c)
    \/ Wake(c)

\* the steps of a call under way
CallerRuns(c) == AcquireRuns(c) \/ WaitRuns(c)

CallsAcquire(c) ==
    /\ rate_limiter # NoLimiter
    /\ \E tokens \in AcquireRequests(rate_limiter) : CallAcquire(c, tokens)

CallsWaitAndAcquire(c) ==
    \E tokens \in WaitRequests : CallWaitAndAcquire(c, tokens)

InitLimiter ==
    /\ Init
    /\ env = Config("openai", MaxTimeout, MaxPollInterval, MaxRetriesCfg, FALSE, "sk-key")

\* coroutines of one event loop call acquire on the limiter they share
NextLimiter ==
    \/ \E tokens_per_minute \in TokensPerMinute : Construct(tokens_per_minute)
    \/ Advance
    \/ \E c \in Callers : CallsAcquire(c)
    \/ \E c \in Callers : AcquireRuns(c)

SpecLimiter == InitLimiter /\ [][NextLimiter]_vars

\* one coroutine uses the limiter; the event loop runs a ready coroutine and
\* time passes
NextSolo ==
    \/ \E tokens_per_minute \in TokensPerMinute : Construct(tokens_per_minute)
    \/ Advance
    \/ CallsAcquire(1)
    \/ CallsWaitAndAcquire(1)
    \/ CallerRuns(1)

SpecLimiterSolo ==
    InitLimiter /\ [][NextSolo]_vars /\ WF_vars(Advance) /\ WF_vars(CallerRuns(1))

\* a limiter that refills and one that never does: RateLimiter(0) has
\* capacity 0 and refill_rate 0.0
SharedTokensPerMinute == {0, 1200}

\* the token counts asked of the shared limiter: none, one, the whole
\* bucket by acquire, and one more than the bucket holds by wait_and_acquire
SharedAcquireRequests(l) == {0, 1, l.capacity \div Scale}
SharedWaitRequests(l) == {0, 1, l.capacity \div Scale + 1}

\* time passes while the callers are watched
SharedAdvance ==
    /\ clock < MaxWaitClock
    /\ Advance

\* two coroutines of one event loop share the limiter: one calls
\* wait_and_acquire, the other acquire
NextShared ==
    \/ \E tokens_per_minute \in SharedTokensPerMinute : Construct(tokens_per_minute)
    \/ SharedAdvance
    \/ /\ rate_limiter # NoLimiter
       /\ callers[1].calls < MaxSharedCalls
       /\ \E tokens \in SharedWaitRequests(rate_limiter) : CallWaitAndAcquire(1, tokens)
    \/ /\ rate_limiter # NoLimiter
       /\ callers[2].calls < MaxSharedCalls
       /\ \E tokens \in SharedAcquireRequests(rate_limiter) : CallAcquire(2, tokens)
    \/ \E c \in Callers : CallerRuns(c)

SpecLimiterShared == InitLimiter /\ [][NextShared]_vars

\* A caller that waits and a caller that keeps acquiring.  The code uses
\* the clock only through now - last_refill and through the length of a
\* sleep, so time is kept relative to now: the clock reads 0 at every
\* moment, and a tick that passes moves last_refill and the end of the
\* sleep one tick into the past.  acquire does not suspend while it holds
\* the lock, so a call of it is one step.

\* acquire(tokens) on limiter l at time 0: the limiter it leaves and what
\* it returns
AcquireOutcome(l, tokens) ==
    LET refilled == [l EXCEPT !.tokens = Refilled(l, TokensToAdd(l, 0)),
                              !.last_refill = 0]
    IN  IF Admits(refilled, tokens)
        THEN [result |-> TRUE,
              limiter |-> [refilled EXCEPT !.tokens = Debited(refilled, tokens)]]
        ELSE [result |-> FALSE, limiter |-> refilled]

\* the token counts the caller that keeps acquiring asks for
CompetitorRequests == {1, 2}

\* the bucket has just been emptied by acquire(capacity)
InitFair ==
    /\ env = Config("openai", MaxTimeout, MaxPollInterval, MaxRetriesCfg, FALSE, "sk-key")
    /\ research_agent = env
    /\ sessions = <<>>
    /\ remote = <<>>
    /\ pc = "idle"
    /\ tool = NoTool
    /\ call = IdleCall
    /\ obs = NoObs
    /\ researchOut = NoOutcome
    /\ statusOut = NoStatusCall
    /\ clarOut = NoClarCall
    /\ toolOut = NoOutcome
    /\ event_loop = IdleLoop
    /\ clock = 0
    /\ granted = 0
    /\ callers = [c \in Callers |-> IdleCaller]
    /\ \E tokens_per_minute \in TokensPerMinute :
          rate_limiter = AcquireOutcome(RateLimiter(tokens_per_minute, 0),
                                        tokens_per_minute).limiter

FairCaller(where, op, tokens, wake, result) ==
    [pc |-> where, calls |-> 1, op |-> op, tokens |-> tokens, wake |-> wake,
     result |-> result]

OnlyLimiterChanges == UNCHANGED <<clock, granted>> /\ AgentUnchanged

\* caller 1 calls limiter.wait_and_acquire(tokens)
WaiterCalls(tokens) ==
    /\ At(1, "idle")
    /\ callers' = [callers EXCEPT
                     ![1] = FairCaller("acquire", "wait_and_acquire", tokens, 0, FALSE)]
    /\ UNCHANGED rate_limiter
    /\ OnlyLimiterChanges

\* wait_and_acquire: if await self.acquire(tokens): return
WaiterAttempts ==
    /\ At(1, "acquire")
    /\ LET out == AcquireOutcome(rate_limiter, callers[1].tokens)
       IN  /\ rate_limiter' = out.limiter
           /\ callers' = [callers EXCEPT
                            ![1].pc = IF out.result THEN "returned" ELSE "estimate",
                            ![1].result = out.result]
    /\ OnlyLimiterChanges

\* wait_and_acquire: needed, sleep_for, and the start of asyncio.sleep
WaiterEstimates ==
    /\ At(1, "estimate")
    /\ callers' = [callers EXCEPT
                     ![1].pc = "sleep",
                     ![1].wake = SleepTicks(rate_limiter, callers[1].tokens)]
    /\ UNCHANGED rate_limiter
    /\ OnlyLimiterChanges

\* wait_and_acquire: asyncio.sleep ends
WaiterWakes ==
    /\ At(1, "sleep")
    /\ callers[1].wake = 0
    /\ callers' = Goto(1, "acquire")
    /\ UNCHANGED rate_limiter
    /\ OnlyLimiterChanges

WaiterRuns == WaiterAttempts \/ WaiterEstimates \/ WaiterWakes

\* caller 2 calls limiter.acquire(tokens), again and again
CompetitorAcquires(tokens) ==
    /\ LET out == AcquireOutcome(rate_limiter, tokens)
       IN  /\ rate_limiter' = out.limiter
           /\ callers' = [callers EXCEPT
                            ![2] = FairCaller("returned", "acquire", tokens, 0, out.result)]
    /\ OnlyLimiterChanges

KeepsAcquiring == \E tokens \in CompetitorRequests : CompetitorAcquires(tokens)

\* a tick passes while caller 1 sleeps
TimePasses ==
    /\ At(1, "sleep")
    /\ callers[1].wake > 0
    /\ callers' = [callers EXCEPT ![1].wake = @ - 1]
    /\ rate_limiter' = [rate_limiter EXCEPT !.last_refill = @ - 1]
    /\ OnlyLimiterChanges

NextFair ==
    \/ \E tokens \in WaitRequests : WaiterCalls(tokens)
    \/ WaiterRuns
    \/ KeepsAcquiring
    \/ TimePasses

\* every caller's steps and the passing of time are weakly fair
SpecLimiterFair ==
    /\ InitFair
    /\ [][NextFair]_vars
    /\ WF_vars(WaiterRuns)
    /\ WF_vars(KeepsAcquiring)
    /\ WF_vars(TimePasses)

----------------------------------------------------------------------------
(* The event loop: research() and get_task_status() calls as coroutines of
   one asyncio loop.  The loop runs one coroutine at a time, from one await
   that suspends to the next; self.client is the synchronous OpenAI client,
   so a coroutine inside client.responses.create, retrieve or cancel is
   still the one the loop runs.  Data is left out: what matters here is who
   holds the loop. *)

Coroutine(c) == event_loop.coroutines[c]

\* the coroutine is inside a call of the provider's API
InNetworkCall(c) == Coroutine(c).pc \in {"create", "retrieve", "cancel"}

\* the coroutine is suspended in asyncio.sleep (tenacity's wait between
\* attempts, the poll interval, the backoff after a poll error)
Asleep(c) == Coroutine(c).pc \in {"retry_sleep", "poll_sleep", "error_sleep"}

\* the coroutine can go on as soon as the loop picks it
Runnable(c) == Coroutine(c).pc \in {"pending", "create_ready", "poll_ready"}

\* the coroutine moves to `where`, and the loop runs `running` afterwards
Moves(c, where, running) ==
    /\ event_loop' = [event_loop EXCEPT !.coroutines[c].pc = where,
                                        !.running = running]
    /\ UNCHANGED <<env, research_agent, sessions, remote, pc, tool, call, obs,
                   researchOut, statusOut, clarOut, toolOut, limiterVars>>

\* a client request arrives: the server creates the coroutine of the call
LoopCall(c) ==
    /\ Coroutine(c).pc \in {"idle", "done"}
    /\ event_loop' = [event_loop EXCEPT
                        !.coroutines[c] = [pc |-> "pending", attempt |-> 0, polls |-> 0]]
    /\ UNCHANGED <<env, research_agent, sessions, remote, pc, tool, call, obs,
                   researchOut, statusOut, clarOut, toolOut, limiterVars>>

\* the loop, running nothing, picks a coroutine that can go on; the
\* coroutine runs up to its next call of the provider: research() to
\* responses.create, _wait_for_completion to responses.retrieve or, past the
\* deadline, to responses.cancel, get_task_status to responses.retrieve
LoopRuns(c) ==
    /\ event_loop.running = None
    /\ Runnable(c)
    /\ \/ /\ Coroutine(c).pc \in {"pending", "create_ready"}
          /\ c \in ResearchCalls
          /\ event_loop' = [event_loop EXCEPT !.running = c,
                                              !.coroutines[c].pc = "create",
                                              !.coroutines[c].attempt = @ + 1]
       \/ /\ Coroutine(c).pc = "pending"
          /\ c \notin ResearchCalls
          /\ event_loop' = [event_loop EXCEPT !.running = c,
                                              !.coroutines[c].pc = "retrieve"]
       \/ /\ Coroutine(c).pc = "poll_ready"
          /\ Coroutine(c).polls < MaxPolls
          /\ event_loop' = [event_loop EXCEPT !.running = c,
                                              !.coroutines[c].pc = "retrieve",
                                              !.coroutines[c].polls = @ + 1]
       \/ /\ Coroutine(c).pc = "poll_ready"
          /\ event_loop' = [event_loop EXCEPT !.running = c,
                                              !.coroutines[c].pc = "cancel"]
    /\ UNCHANGED <<env, research_agent, sessions, remote, pc, tool, call, obs,
                   researchOut, statusOut, clarOut, toolOut, limiterVars>>

\* responses.create returns: _wait_for_completion starts and, the deadline
\* not being reached, calls responses.retrieve
CreateReturns(c) ==
    /\ Coroutine(c).pc = "create"
    /\ event_loop' = [event_loop EXCEPT !.coroutines[c].pc = "retrieve",
                                        !.coroutines[c].polls = @ + 1]
    /\ UNCHANGED <<env, research_agent, sessions, remote, pc, tool, call, obs,
                   researchOut, statusOut, clarOut, toolOut, limiterVars>>

\* responses.create raises: tenacity sleeps before the next attempt, or
\* gives up after the last one
CreateRaises(c) ==
    /\ Coroutine(c).pc = "create"
    /\ IF StopAfterAttempt(Coroutine(c).attempt)
       THEN Moves(c, "done", None)
       ELSE Moves(c, "retry_sleep", None)

\* responses.retrieve returns a status that is not terminal: asyncio.sleep
LoopPollSleep(c) ==
    /\ Coroutine(c).pc = "retrieve"
    /\ c \in ResearchCalls
    /\ Moves(c, "poll_sleep", None)

\* responses.retrieve raises, or reports 'failed': asyncio.sleep(5)
LoopErrorSleep(c) ==
    /\ Coroutine(c).pc = "retrieve"
    /\ c \in ResearchCalls
    /\ Moves(c, "error_sleep", None)

\* responses.retrieve reports 'completed' to research(), or returns or
\* raises in get_task_status: the call returns
RetrieveEnds(c) ==
    /\ Coroutine(c).pc = "retrieve"
    /\ Moves(c, "done", None)

\* responses.cancel returns or raises: research() returns the timeout record
CancelEnds(c) ==
    /\ Coroutine(c).pc = "cancel"
    /\ Moves(c, "done", None)

\* the timer of an asyncio.sleep fires: the coroutine can go on
SleepEnds(c) ==
    /\ Asleep(c)
    /\ Moves(c, IF Coroutine(c).pc = "retry_sleep" THEN "create_ready" ELSE "poll_ready",
             event_loop.running)

InitLoop ==
    /\ Init
    /\ env = Config("openai", MaxTimeout, MaxPollInterval, MaxRetriesCfg, FALSE, "sk-key")

NextLoop ==
    \E c \in Coroutines :
        \/ LoopCall(c)
        \/ LoopRuns(c)
        \/ CreateReturns(c)
        \/ CreateRaises(c)
        \/ LoopPollSleep(c)
        \/ LoopErrorSleep(c)
        \/ RetrieveEnds(c)
        \/ CancelEnds(c)
        \/ SleepEnds(c)

SpecLoop == InitLoop /\ [][NextLoop]_vars

----------------------------------------------------------------------------
(* Two research() calls running concurrently on one agent, with their data:
   each coroutine has its own locals (the task id its submission returned,
   its start time, the response it ends with); the agent's fields are only
   read.  A step is what a coroutine does between two awaits. *)

ResearchCoroutine ==
    [pc |-> "idle", task_id |-> None, issued |-> None, elapsed |-> 0,
     polled |-> {}, cancelled |-> {}, result |-> NoOutcome]

InitConcurrent ==
    /\ env = Config("openai", MaxTimeout, MaxPollInterval, SubmitAttempts, FALSE, "sk-key")
    /\ research_agent = env
    /\ sessions = <<>>
    /\ remote = <<>>
    /\ pc = "idle"
    /\ tool = NoTool
    /\ call = IdleCall
    /\ obs = NoObs
    /\ researchOut = NoOutcome
    /\ statusOut = NoStatusCall
    /\ clarOut = NoClarCall
    /\ toolOut = NoOutcome
    /\ clock = 0
    /\ rate_limiter = NoLimiter
    /\ callers = [c \in Callers |-> IdleCaller]
    /\ granted = 0
    /\ event_loop = [running |-> None,
                     coroutines |-> [c \in ResearchCalls |-> ResearchCoroutine]]

OnlyLoopChanges ==
    UNCHANGED <<env, research_agent, sessions, pc, tool, call, obs,
                researchOut, statusOut, clarOut, toolOut, limiterVars>>

\* _wait_for_completion(task_id): the task a call polls and cancels is the
\* one named by its own parameter
WaitedTask(c) == Coroutine(c).task_id

\* a program awaits agent.research(query)
ConcurrentResearch(c) ==
    /\ Coroutine(c).pc = "idle"
    /\ event_loop' = [event_loop EXCEPT !.coroutines[c].pc = "create"]
    /\ UNCHANGED remote
    /\ OnlyLoopChanges

\* _create_openai_research_task returns a response, whose id research()
\* hands to _wait_for_completion, or gives up
ConcurrentCreate(c) ==
    /\ Coroutine(c).pc = "create"
    /\ \/ \E id \in FreshTaskIds :
            /\ remote' = remote @@ (id :> [status |-> "queued"])
            /\ event_loop' = [event_loop EXCEPT !.coroutines[c].pc = "poll",
                                                !.coroutines[c].task_id = id,
                                                !.coroutines[c].issued = id]
       \/ \E e \in RemoteErrors :
            /\ event_loop' = [event_loop EXCEPT
                                !.coroutines[c].pc = "done",
                                !.coroutines[c].result = Raised(RetryError(e))]
            /\ UNCHANGED remote
    /\ OnlyLoopChanges

\* _wait_for_completion: one turn of the loop and the sleep that follows it
ConcurrentPoll(c) ==
    /\ Coroutine(c).pc = "poll"
    /\ BeforeDeadline(Coroutine(c).elapsed)
    /\ \E out \in RetrieveOutcomes(WaitedTask(c)) :
        IF out.kind = "return" /\ out.value.status = "completed"
        THEN event_loop' = [event_loop EXCEPT
                              !.coroutines[c].polled = @ \cup {WaitedTask(c)},
                              !.coroutines[c].pc = "done",
                              !.coroutines[c].result = Returned(ExtractResults(out.value))]
        ELSE event_loop' = [event_loop EXCEPT
                              !.coroutines[c].polled = @ \cup {WaitedTask(c)},
                              !.coroutines[c].elapsed =
                                  IF out.kind = "raise" \/ out.value.status = "failed"
                                  THEN AfterErrorSleep(@) ELSE AfterPollSleep(@)]
    /\ UNCHANGED remote
    /\ OnlyLoopChanges

\* _wait_for_completion after the loop: cancel, then the timeout record
ConcurrentDeadline(c) ==
    /\ Coroutine(c).pc = "poll"
    /\ ~BeforeDeadline(Coroutine(c).elapsed)
    /\ \E cancel_raises \in BOOLEAN :
          remote' = IF cancel_raises THEN remote ELSE AfterCancel(WaitedTask(c))
    /\ event_loop' = [event_loop EXCEPT
                        !.coroutines[c].cancelled = @ \cup {WaitedTask(c)},
                        !.coroutines[c].pc = "done",
                        !.coroutines[c].result =
                            Returned(FailedResult(Exc("TaskTimeoutError",
                                TimeoutMessage(WaitedTask(c), research_agent.timeout))))]
    /\ OnlyLoopChanges

NextConcurrent ==
    \/ \E c \in ResearchCalls :
          \/ ConcurrentResearch(c)
          \/ ConcurrentCreate(c)
          \/ ConcurrentPoll(c)
          \/ ConcurrentDeadline(c)
    \/ \E id \in TaskIds : ProviderStep(id)

SpecConcurrent == InitConcurrent /\ [][NextConcurrent]_vars

----------------------------------------------------------------------------
(* Two research_with_context calls on the session deep_research opened, as
   coroutines of one loop.  A coroutine the loop runs keeps the loop until it
   reaches a statement that suspends it. *)

ContextCalls == {"research_with_context 1", "research_with_context 2"}
ContextAnswerLists == {<<"a1", "a2", "a3">>, <<"b1", "b2", "b3">>, <<"b1">>}

ContextCoroutine ==
    [pc |-> "idle", answers |-> <<>>, qa_pairs |-> <<>>, enriched_query |-> None]

\* the session table after deep_research(request_clarification=True)
InitContext ==
    /\ env = Config("openai", MaxTimeout, MaxPollInterval, SubmitAttempts, TRUE, "sk-key")
    /\ research_agent = env
    /\ \E questions \in QuestionLists :
          sessions = Put(<<>>, SessionId(1),
                         ClarificationSession(SessionId(1), "q", questions))
    /\ remote = <<>>
    /\ pc = "idle"
    /\ tool = NoTool
    /\ call = IdleCall
    /\ obs = NoObs
    /\ researchOut = NoOutcome
    /\ statusOut = NoStatusCall
    /\ clarOut = NoClarCall
    /\ toolOut = NoOutcome
    /\ clock = 0
    /\ rate_limiter = NoLimiter
    /\ callers = [c \in Callers |-> IdleCaller]
    /\ granted = 0
    /\ event_loop = [running |-> None,
                     coroutines |-> [c \in ContextCalls |-> ContextCoroutine]]

OnlyContextChanges ==
    UNCHANGED <<env, research_agent, remote, pc, tool, call, obs,
                researchOut, statusOut, clarOut, toolOut, limiterVars>>

\* the statements of research_with_context that suspend the coroutine:
\* add_clarification_answers and get_enriched_query are plain calls, the
\* first await comes after them
Suspends(statement) == statement \in {"report_progress", "research"}

\* who holds the loop once coroutine c has reached `statement`
RunningAt(c, statement) == IF Suspends(statement) THEN None ELSE c

\* a client calls research_with_context(session_id, answers): the loop
\* starts the coroutine when it runs nothing else
ContextCall(c, answers) ==
    /\ Coroutine(c).pc = "idle"
    /\ event_loop.running = None
    /\ event_loop' = [event_loop EXCEPT
                        !.running = RunningAt(c, "add_clarification_answers"),
                        !.coroutines[c].pc = "add_clarification_answers",
                        !.coroutines[c].answers = answers]
    /\ UNCHANGED sessions
    /\ OnlyContextChanges

\* status_result = research_agent.add_clarification_answers(session_id, answers)
ContextAddAnswers(c) ==
    /\ Coroutine(c).pc = "add_clarification_answers"
    /\ event_loop.running \in {None, c}
    /\ sessions' = AddAnswers(SessionId(1), Coroutine(c).answers).sessions
    /\ event_loop' = [event_loop EXCEPT
                        !.running = RunningAt(c, "get_enriched_query"),
                        !.coroutines[c].pc = "get_enriched_query"]
    /\ OnlyContextChanges

\* enriched_query = research_agent.get_enriched_query(session_id); what
\* follows is awaited
ContextEnrich(c) ==
    /\ Coroutine(c).pc = "get_enriched_query"
    /\ event_loop.running \in {None, c}
    /\ \E enriched \in EnrichedQueries(sessions, SessionId(1)) :
          event_loop' = [event_loop EXCEPT
                           !.running = RunningAt(c, "research"),
                           !.coroutines[c].pc = "research",
                           !.coroutines[c].qa_pairs = enriched.qa_pairs,
                           !.coroutines[c].enriched_query = enriched.outcome.value]
    /\ UNCHANGED sessions
    /\ OnlyContextChanges

\* await research_agent.research(query=enriched_query, ...) is over
ContextResearchEnds(c) ==
    /\ Coroutine(c).pc = "research"
    /\ event_loop.running \in {None, c}
    /\ event_loop' = [event_loop EXCEPT !.running = None,
                                        !.coroutines[c].pc = "done"]
    /\ UNCHANGED sessions
    /\ OnlyContextChanges

NextContext ==
    \E c \in ContextCalls :
        \/ \E answers \in ContextAnswerLists : ContextCall(c, answers)
        \/ ContextAddAnswers(c)
        \/ ContextEnrich(c)
        \/ ContextResearchEnds(c)

SpecContext == InitContext /\ [][NextContext]_vars

----------------------------------------------------------------------------
(* The progress heartbeat of deep_research and research_with_context: the
   tool and the task it creates with asyncio.create_task, as two coroutines
   of one loop.  event_loop.tool is the tool call, event_loop.heartbeat the
   task; sent counts the progress reports of the heartbeat and late those
   sent after the tool returned. *)

ResearchEndings == {"completed", "failed", "ResearchError", "Exception"}

NoHeartbeat == [pc |-> "none", cancel_requested |-> FALSE, minutes |-> 1,
                sent |-> 0, late |-> 0]

InitHeartbeat ==
    /\ env = Config("openai", MaxTimeout, MaxPollInterval, SubmitAttempts, FALSE, "sk-key")
    /\ research_agent = env
    /\ sessions = <<>>
    /\ remote = <<>>
    /\ pc = "idle"
    /\ tool = NoTool
    /\ call = IdleCall
    /\ obs = NoObs
    /\ researchOut = NoOutcome
    /\ statusOut = NoStatusCall
    /\ clarOut = NoClarCall
    /\ toolOut = NoOutcome
    /\ clock = 0
    /\ rate_limiter = NoLimiter
    /\ callers = [c \in Callers |-> IdleCaller]
    /\ granted = 0
    /\ event_loop = [running |-> None,
                     tool |-> [pc |-> "idle", name |-> None, ctx |-> FALSE,
                               research |-> None, returned |-> None],
                     heartbeat |-> NoHeartbeat]

OnlyHeartbeatChanges ==
    UNCHANGED <<env, research_agent, sessions, remote, pc, tool, call, obs,
                researchOut, statusOut, clarOut, toolOut, limiterVars>>

\* the heartbeat task has run to its end, by return or by cancellation
HeartbeatDone == event_loop.heartbeat.pc \in {"none", "stopped", "cancelled"}

\* finally: if heartbeat_task: heartbeat_task.cancel(); await heartbeat_task
CancelsHeartbeat(heartbeat_task) == heartbeat_task

\* what the tool returns for the way research() ended
HeartbeatToolText(research) ==
    IF research = "completed" THEN "# Research Report"
    ELSE IF research = "failed" THEN "Research failed: "
    ELSE IF research = "ResearchError" THEN "Research error: "
    ELSE "Unexpected error: "

\* the tool is called and reaches await research_agent.research(...): with
\* a ctx it has reported the start and created the heartbeat task
ToolStarts(name, ctx) ==
    /\ event_loop.tool.pc \in {"idle", "returned"}
    /\ HeartbeatDone
    /\ event_loop' = [event_loop EXCEPT
                        !.tool = [pc |-> "research", name |-> name, ctx |-> ctx,
                                  research |-> None, returned |-> None],
                        !.heartbeat = IF ctx THEN [NoHeartbeat EXCEPT !.pc = "sleeping"]
                                      ELSE NoHeartbeat]
    /\ OnlyHeartbeatChanges

\* research() ends; the except clauses report and re-raise, and the finally
\* clause calls heartbeat_task.cancel() when there is a heartbeat task
ResearchReturns(research) ==
    /\ event_loop.tool.pc = "research"
    /\ event_loop' = [event_loop EXCEPT
                        !.tool.research = research,
                        !.tool.pc = IF CancelsHeartbeat(event_loop.tool.ctx)
                                    THEN "await heartbeat_task" ELSE "format",
                        !.heartbeat.cancel_requested =
                            CancelsHeartbeat(event_loop.tool.ctx) /\ ~HeartbeatDone]
    /\ OnlyHeartbeatChanges

\* with suppress(asyncio.CancelledError): await heartbeat_task returns once
\* the task is done
HeartbeatAwaited ==
    /\ event_loop.tool.pc = "await heartbeat_task"
    /\ HeartbeatDone
    /\ event_loop' = [event_loop EXCEPT !.tool.pc = "format"]
    /\ OnlyHeartbeatChanges

\* the result is formatted, or the exception caught by the outer except
\* clauses, and the tool returns
ToolReturns ==
    /\ event_loop.tool.pc = "format"
    /\ event_loop' = [event_loop EXCEPT
                        !.tool.pc = "returned",
                        !.tool.returned = HeartbeatToolText(event_loop.tool.research)]
    /\ OnlyHeartbeatChanges

\* _progress_heartbeat: await asyncio.sleep(interval_seconds) is over
HeartbeatWakes ==
    /\ event_loop.heartbeat.pc = "sleeping"
    /\ ~event_loop.heartbeat.cancel_requested
    /\ event_loop.heartbeat.minutes <= MaxMinutes
    /\ event_loop' = [event_loop EXCEPT !.heartbeat.pc = "reporting"]
    /\ OnlyHeartbeatChanges

\* _progress_heartbeat: await ctx.report_progress(...) returns, or raises
\* and the heartbeat returns
HeartbeatReports ==
    /\ event_loop.heartbeat.pc = "reporting"
    /\ ~event_loop.heartbeat.cancel_requested
    /\ \/ event_loop' = [event_loop EXCEPT
                           !.heartbeat.pc = "sleeping",
                           !.heartbeat.minutes = @ + 1,
                           !.heartbeat.sent = @ + 1,
                           !.heartbeat.late =
                               IF event_loop.tool.pc = "returned" THEN @ + 1 ELSE @]
       \/ event_loop' = [event_loop EXCEPT !.heartbeat.pc = "stopped"]
    /\ OnlyHeartbeatChanges

\* the CancelledError of heartbeat_task.cancel() is thrown into the
\* heartbeat at the await it is suspended in
HeartbeatCancelled ==
    /\ event_loop.heartbeat.pc \in {"sleeping", "reporting"}
    /\ event_loop.heartbeat.cancel_requested
    /\ event_loop' = [event_loop EXCEPT !.heartbeat.pc = "cancelled"]
    /\ OnlyHeartbeatChanges

NextHeartbeat ==
    \/ \E name \in {"deep_research", "research_with_context"}, ctx \in BOOLEAN :
          ToolStarts(name, ctx)
    \/ \E research \in ResearchEndings : ResearchReturns(research)
    \/ HeartbeatAwaited
    \/ ToolReturns
    \/ HeartbeatWakes
    \/ HeartbeatReports
    \/ HeartbeatCancelled

SpecHeartbeat == InitHeartbeat /\ [][NextHeartbeat]_vars

----------------------------------------------------------------------------
(* The process-wide agent: tool calls as coroutines of one loop, each going
   through "if not research_agent: ... research_agent = DeepResearchAgent(
   config)" before its body.  The session table belongs to the agent, so a
   new agent starts with an empty one.  event_loop.constructions counts the
   agents built. *)

ToolCalls == {"tool call 1", "tool call 2"}
ToolKinds == {"deep_research", "deep_research(request_clarification)",
              "research_with_context", "research_status"}

IdleToolCall == [pc |-> "idle", tool |-> None, returned |-> None]

InitSingleton ==
    /\ env \in ToolEnvs
    /\ research_agent = NoAgent
    /\ sessions = <<>>
    /\ remote = <<>>
    /\ pc = "idle"
    /\ tool = NoTool
    /\ call = IdleCall
    /\ obs = NoObs
    /\ researchOut = NoOutcome
    /\ statusOut = NoStatusCall
    /\ clarOut = NoClarCall
    /\ toolOut = NoOutcome
    /\ clock = 0
    /\ rate_limiter = NoLimiter
    /\ callers = [c \in Callers |-> IdleCaller]
    /\ granted = 0
    /\ event_loop = [running |-> None, constructions |-> 0,
                     coroutines |-> [c \in ToolCalls |-> IdleToolCall]]

OnlyAgentChanges ==
    UNCHANGED <<env, remote, pc, tool, call, obs,
                researchOut, statusOut, clarOut, toolOut, limiterVars>>

\* if not research_agent:
ConstructsAgent(agent) == agent.provider = None

\* a client calls a tool: the loop starts the coroutine when it runs
\* nothing else
ToolCalled(c, kind) ==
    /\ Coroutine(c).pc \in {"idle", "returned"}
    /\ event_loop.running = None
    /\ event_loop' = [event_loop EXCEPT
                        !.running = RunningAt(c, "if not research_agent"),
                        !.coroutines[c] = [pc |-> "if not research_agent",
                                           tool |-> kind, returned |-> None]]
    /\ UNCHANGED <<research_agent, sessions>>
    /\ OnlyAgentChanges

\* the test at the head of the tool: research_status returns at once
\* without an agent, the other tools go on to build one
AgentTested(c) ==
    /\ Coroutine(c).pc = "if not research_agent"
    /\ event_loop.running \in {None, c}
    /\ IF Coroutine(c).tool = "research_status"
       THEN IF ~HasAgent
            THEN event_loop' = [event_loop EXCEPT
                                  !.running = None,
                                  !.coroutines[c].pc = "returned",
                                  !.coroutines[c].returned =
                                      "Research agent not initialized. Please run a research query first."]
            ELSE event_loop' = [event_loop EXCEPT
                                  !.running = RunningAt(c, "body"),
                                  !.coroutines[c].pc = "body"]
       ELSE IF ConstructsAgent(research_agent)
            THEN event_loop' = [event_loop EXCEPT
                                  !.running = RunningAt(c, "DeepResearchAgent(config)"),
                                  !.coroutines[c].pc = "DeepResearchAgent(config)"]
            ELSE event_loop' = [event_loop EXCEPT
                                  !.running = RunningAt(c, "body"),
                                  !.coroutines[c].pc = "body"]
    /\ UNCHANGED <<research_agent, sessions>>
    /\ OnlyAgentChanges

\* config = ResearchConfig.from_env(); config.validate();
\* research_agent = DeepResearchAgent(config), or the except clause
AgentConstructed(c) ==
    /\ Coroutine(c).pc = "DeepResearchAgent(config)"
    /\ event_loop.running \in {None, c}
    /\ IF InitErrors(env) # {}
       THEN /\ event_loop' = [event_loop EXCEPT
                                !.running = None,
                                !.coroutines[c].pc = "returned",
                                !.coroutines[c].returned =
                                    "Failed to initialize research agent: "]
            /\ UNCHANGED <<research_agent, sessions>>
       ELSE /\ research_agent' = env
            /\ sessions' = <<>>
            /\ event_loop' = [event_loop EXCEPT
                                !.running = RunningAt(c, "body"),
                                !.constructions = @ + 1,
                                !.coroutines[c].pc = "body"]
    /\ OnlyAgentChanges

\* the rest of the tool, on the agent that is there: with
\* request_clarification a session may be opened in the agent's table
ToolBody(c) ==
    /\ Coroutine(c).pc = "body"
    /\ event_loop.running \in {None, c}
    /\ event_loop' = [event_loop EXCEPT !.running = None,
                                        !.coroutines[c].pc = "returned",
                                        !.coroutines[c].returned = "result"]
    /\ IF Coroutine(c).tool = "deep_research(request_clarification)"
       THEN \E r \in StartClarificationOutcomes(research_agent, "q", NumDirectSessions) :
                sessions' = r.sessions
       ELSE UNCHANGED sessions
    /\ UNCHANGED research_agent
    /\ OnlyAgentChanges

NextSingleton ==
    \E c \in ToolCalls :
        \/ \E kind \in ToolKinds : ToolCalled(c, kind)
        \/ AgentTested(c)
        \/ AgentConstructed(c)
        \/ ToolBody(c)

SpecSingleton == InitSingleton /\ [][NextSingleton]_vars

----------------------------------------------------------------------------
(* Properties of research() and get_task_status, checked under Spec *)

\* a research() call is over and nothing else has run since
ResearchEnded == researchOut.kind # "none"

\* the failed result research() makes of the TaskTimeoutError of its task
IsTimeoutResult(out) ==
    /\ out.kind = "return"
    /\ out.value.status = "failed"
    /\ out.value.message = TimeoutMessage(obs.issued, research_agent.timeout)

\* every attempt of this call to submit the task has raised
AllAttemptsRaised == obs.creates = 3 /\ obs.issued = None

\* C1: research() returns a result record and never raises, whatever the
\* provider does (submission raising on every attempt included); stated for
\* the calls made without a callback URL.
C1_ResearchNeverRaises ==
    (ResearchEnded /\ obs.callback_url = None)
        => /\ researchOut.kind = "return"
           /\ "status" \in DOMAIN researchOut.value

\* C2: a poll that observes status 'failed' ends the call there: research()
\* returns a failed result whose message carries the message of the remote
\* error, with no further retrieve and no cancel.
C2_FailedIsTerminal ==
    obs.sawFailed
        => /\ researchOut.kind = "return"
           /\ researchOut.value.status = "failed"
           /\ researchOut.value.message = FailedTaskMessage(obs.issued, obs.failedError)
           /\ pc \notin {"poll", "poll_sleep", "error_sleep"}
           /\ obs.cancels = 0

\* C3: cancel is called exactly once, on the task of the call, when the loop
\* is left because the deadline has passed, and on no other path: not after
\* a poll that returned 'completed', not while the call is still polling.
C3_CancelOnlyAtDeadline ==
    /\ obs.cancels \in {0, 1}
    /\ (obs.cancels = 1) <=> (obs.timeoutAt # -1)
    /\ (obs.cancels = 1) <=> IsTimeoutResult(researchOut)
    /\ obs.timeoutAt # -1
        => obs.timeoutAt >= research_agent.timeout /\ obs.cancelled = {obs.issued}
    /\ obs.cancels = 0 => obs.cancelled = {}
    /\ obs.sawCompleted => obs.cancels = 0

C3_Witness ==
    /\ obs.cancels = 1
    /\ obs.cancelRaised
    /\ obs.retrieves >= 2
    /\ remote[obs.issued].status \in {"queued", "in_progress"}

\* C4 as stated: when the provider never reports a terminal state, the
\* timeout is raised no later than timeout + poll_interval after the wait
\* began, whether the polls return or raise.
C4_TimeoutWithinPollInterval ==
    (obs.timeoutAt # -1 /\ ~obs.sawFailed)
        => obs.timeoutAt <= research_agent.timeout + research_agent.poll_interval

\* C4 amended: a poll that raised is followed by a sleep of 5 seconds, not of
\* poll_interval, so the timeout is raised no later than
\* timeout + max(poll_interval, 5) after the wait began.
C4_TimeoutWithinLongestSleep ==
    (obs.timeoutAt # -1 /\ ~obs.sawFailed)
        => obs.timeoutAt <= research_agent.timeout
                            + Max(research_agent.poll_interval, 5)

C4_Witness ==
    /\ obs.timeoutAt > research_agent.timeout + research_agent.poll_interval
    /\ ~obs.sawFailed

\* C5: once the deadline has passed the call ends with the TaskTimeoutError,
\* whose message names the task id and the configured timeout, whether the
\* cancel succeeded or raised; research() returns it as a failed result.
C5_TimeoutBecomesFailedResult ==
    obs.timeoutAt # -1
        => /\ researchOut.kind = "return"
           /\ researchOut.value.status = "failed"
           /\ obs.issued \in Range(researchOut.value.message)
           /\ ToString(research_agent.timeout) \in Range(researchOut.value.message)

C5_Witness ==
    /\ obs.timeoutAt # -1
    /\ obs.cancelRaised
    /\ researchOut.kind = "return"

\* C6: one research() call makes at most 3 create calls; an attempt after the
\* first follows an attempt that raised; no attempt follows a success; the
\* cap is 3 whatever config.max_retries is.
C6_AtMostThreeCreates ==
    /\ obs.creates <= 3
    /\ pc = "create" => obs.issued = None /\ obs.creates = call.attempt - 1
    /\ pc = "backoff" => obs.issued = None /\ obs.creates = call.attempt
    /\ obs.issued # None => pc \notin {"create", "backoff"}

C6_Witness ==
    /\ obs.creates = 3
    /\ obs.issued # None
    /\ research_agent.max_retries = MaxRetriesCfg

\* C7: when all 3 attempts raise, the call raises the exception of
\* the remote call itself, and polls, cancels and extracts nothing.
C7_RaisesUnderlying ==
    AllAttemptsRaised
        => /\ researchOut.kind = "raise"
           /\ researchOut.exc \in RemoteErrors
           /\ obs.retrieves = 0 /\ obs.cancels = 0 /\ obs.extracts = 0

\* C8: within one call the create comes first, every poll names the id that
\* create returned, the extraction follows a poll that returned 'completed',
\* and nothing is polled after the extraction.
C8_CreateThenPollThenExtract ==
    /\ obs.retrieves > 0 => obs.issued # None /\ obs.polled = {obs.issued}
    /\ obs.retrieves = 0 => obs.polled = {}
    /\ obs.issued # None => obs.creates > 0
    /\ obs.extracts \in {0, 1}
    /\ obs.extracts = 1
        => /\ obs.sawCompleted
           /\ obs.retrieves > 0
           /\ pc \notin {"create", "backoff", "poll", "poll_sleep", "error_sleep"}

C8_Witness ==
    /\ obs.extracts = 1
    /\ obs.issued = TaskId(2)
    /\ obs.retrieves >= 2
    /\ obs.creates >= 2

\* C9: get_task_status never raises; its record carries the task_id it was
\* given; when the retrieve raised, the record has status 'error' and the
\* message of the exception; the call changes nothing of the agent or of the
\* provider.
C9_StatusNeverRaises ==
    /\ [](statusOut.task_id # None
            => /\ statusOut.outcome.kind = "return"
               /\ statusOut.outcome.value.task_id = statusOut.task_id
               /\ statusOut.retrieve = "raised"
                    => /\ statusOut.outcome.value.status = "error"
                       /\ "error" \in DOMAIN statusOut.outcome.value
                       /\ statusOut.outcome.value.error # <<>>)
    /\ [][(statusOut'.task_id # None /\ statusOut' # statusOut)
            => UNCHANGED <<env, limiterVars, event_loop, clarOut, research_agent, sessions, remote, pc, call, tool>>]_vars

C9_Witness ==
    /\ statusOut.task_id = FakeTaskId
    /\ statusOut.retrieve = "raised"
    /\ statusOut.outcome.kind = "return"
    /\ statusOut.outcome.value.status = "error"

\* a message, kept as the sequence of its parts, has at least one character
NonEmpty(message) == \E i \in DOMAIN message : message[i] # ""

\* C11: every record research() returns satisfies: status completed implies
\* final_report is a string and the citation indices are 1..len(citations) in
\* order; status failed implies a non-empty message and no final_report.
C11_ResultShape ==
    researchOut.kind = "return"
        => LET r == researchOut.value
           IN  /\ r.status = "completed"
                    => /\ r.final_report \in STRING
                       /\ \A i \in DOMAIN r.citations : r.citations[i].index = i
               /\ r.status = "failed"
                    => /\ "message" \in DOMAIN r
                       /\ NonEmpty(r.message)
                       /\ "final_report" \notin DOMAIN r

\* C12: every record research() returns after the provider issued a task id
\* carries that id as its task_id, whether it is completed or failed, the
\* failure made of a timeout included.
C12_ResultCarriesTaskId ==
    (/\ researchOut.kind = "return"
     /\ obs.issued # None
     /\ researchOut.value.status \in {"completed", "failed"})
        => /\ "task_id" \in DOMAIN researchOut.value
           /\ researchOut.value.task_id = obs.issued

----------------------------------------------------------------------------
(* Properties of the tool operations, checked under SpecTools *)

\* C10: deep_research, research_with_context and research_status return a
\* string and never raise: when the agent cannot be built, when the session
\* id is unknown, when research() returns a failed result and when research()
\* raises, a ResearchError or anything else.
C10_ToolsReturnText ==
    /\ toolOut.kind \in {"none", "return"}
    /\ toolOut.kind = "return" => \A i \in DOMAIN toolOut.value : toolOut.value[i] \in STRING

C10_Witness ==
    /\ toolOut.kind = "return"
    /\ researchOut.kind = "none"
    /\ toolOut.value[1] = "Unexpected error: "
    /\ "RetryError[" \in Range(toolOut.value)

----------------------------------------------------------------------------
(* Properties of _extract_openai_results, checked under SpecExtract *)

\* the annotations _extract_openai_results reads: those of the first content
\* block of the last output item
AnnotationsRead(response) ==
    LET final_output == response.output[Len(response.output)]
    IN  IF final_output.content = <<>> THEN <<>>
        ELSE final_output.content[1].annotations

\* C13: for a completed response whose last output item's first content
\* block has N annotations the result has exactly N citations, indexed 1..N in
\* annotation order, each with the title, url and offsets of its annotation;
\* with no content block or no annotations it has none.
C13_CitationsFollowAnnotations ==
    (/\ researchOut.kind = "return"
     /\ call.final_response.status = "completed"
     /\ call.final_response.output # <<>>)
        => LET annotations == AnnotationsRead(call.final_response)
               citations == researchOut.value.citations
           IN  /\ Len(citations) = Len(annotations)
               /\ \A i \in 1..Len(annotations) :
                    citations[i] = [index |-> i,
                                    title |-> annotations[i].title,
                                    url |-> annotations[i].url,
                                    start_char |-> annotations[i].start_index,
                                    end_char |-> annotations[i].end_index]

C13_Witness ==
    /\ researchOut.kind = "return"
    /\ call.final_response.status = "completed"
    /\ call.final_response.output # <<>>
    /\ Len(AnnotationsRead(call.final_response)) = 2
    /\ Len(researchOut.value.citations) = 2
    /\ researchOut.value.citations[2].title = "T1"
    /\ researchOut.value.citations[1].title = "T2"

\* C14: for a failed response with the mapping-like error {message: X,
\* code: E1} the result is {status: failed, message: X, error_code: E1,
\* task_id: the id of the response}; for an error that is not mapping-like the
\* message is its string form and task_id is present just the same.
C14_FailedShape ==
    (researchOut.kind = "return" /\ call.final_response.status = "failed")
        => LET error == call.final_response.error
               result == researchOut.value
           IN  /\ error = [shape |-> "map", message |-> "X", code |-> "E1"]
                    => result = [status |-> "failed", message |-> <<"X">>,
                                 error_code |-> "E1",
                                 task_id |-> call.final_response.id]
               /\ error.shape = "str"
                    => /\ result.status = "failed"
                       /\ result.message = <<error.text>>
                       /\ "task_id" \in DOMAIN result
                       /\ result.task_id = call.final_response.id

C14_Witness ==
    /\ researchOut.kind = "return"
    /\ call.final_response.status = "failed"
    /\ call.final_response.id = TaskId(2)
    /\ call.final_response.error = [shape |-> "map", message |-> "X", code |-> "E1"]
    /\ researchOut.value.error_code = "E1"

----------------------------------------------------------------------------
(* Properties of the clarification operations, checked under SpecClarify:
   clarOut describes the call that led to the current state and
   clarOut.before is the session table that call found *)

StartedClarification == clarOut.op = "start_clarification"
AddedAnswers == clarOut.op = "add_answers"
AskedEnrichedQuery == clarOut.op = "get_enriched_query"

\* the call named a session that existed
KnownSession == clarOut.session_id \in DOMAIN clarOut.before

\* the sessions the call found are all still there, unchanged
OldSessionsKept ==
    \A sid \in DOMAIN clarOut.before :
        sid \in DOMAIN sessions /\ sessions[sid] = clarOut.before[sid]

C16_UnknownSessionIsHarmless ==
    /\ (AddedAnswers /\ ~KnownSession)
        => /\ clarOut.outcome.kind = "return"
           /\ "error" \in DOMAIN clarOut.outcome.value
           /\ sessions = clarOut.before
    /\ (AskedEnrichedQuery /\ ~KnownSession)
        => /\ clarOut.outcome = Returned(None)
           /\ clarOut.model = "not called"
           /\ sessions = clarOut.before

C16_Witness ==
    /\ AddedAnswers
    /\ clarOut.session_id = UnknownSessionId
    /\ clarOut.answers # <<>>
    /\ Cardinality(DOMAIN sessions) = 2
    /\ "error" \in DOMAIN clarOut.outcome.value

\* C17: the answers of successive add_answers calls on one session
\* accumulate: the session holds the answers it had followed by the new ones,
\* and is_complete tells whether those together cover the questions (so that
\* 2 answers, then the 3rd, complete a session of 3 questions).
C17_AnswersAccumulate ==
    (AddedAnswers /\ KnownSession)
        => LET old == clarOut.before[clarOut.session_id]
               all == old.answers \o clarOut.answers
           IN  /\ sessions[clarOut.session_id].answers = all
               /\ clarOut.outcome.value.is_complete = (Len(all) >= Len(old.questions))

\* C17 amended: the answers of successive add_answers calls do not accumulate;
\* the counts and is_complete a call reports are those of the list that call
\* supplied (2 answers, then a call with the 3rd alone, leave a session of 3
\* questions incomplete with 1 answer; a call with 3 answers completes it).
C17_CompletenessOfLastCall ==
    (AddedAnswers /\ KnownSession)
        => LET old == clarOut.before[clarOut.session_id]
               status == clarOut.outcome.value
           IN  /\ status.total_questions = Len(old.questions)
               /\ status.answered_questions = Len(clarOut.answers)
               /\ status.is_complete = (Len(clarOut.answers) >= Len(old.questions))

C17_Witness ==
    /\ AddedAnswers
    /\ KnownSession
    /\ Len(clarOut.before[clarOut.session_id].questions) = 3
    /\ clarOut.before[clarOut.session_id].answers = <<"a1", "a2">>
    /\ clarOut.answers = <<"a3">>
    /\ clarOut.outcome.value.answered_questions = 1
    /\ clarOut.outcome.value.is_complete = FALSE

\* C18: add_answers on a known session replaces its answers wholesale: after
\* add_answers(s, A) the answers of s are exactly A whatever they were, and
\* nothing else of the table changes; the calls being atomic, of two calls on
\* one session the later one wins.
C18_LastAddAnswersWins ==
    (AddedAnswers /\ KnownSession)
        => /\ DOMAIN sessions = DOMAIN clarOut.before
           /\ sessions[clarOut.session_id]
                = [clarOut.before[clarOut.session_id] EXCEPT !.answers = clarOut.answers]
           /\ \A sid \in DOMAIN sessions \ {clarOut.session_id} :
                sessions[sid] = clarOut.before[sid]

C18_Witness ==
    /\ AddedAnswers
    /\ KnownSession
    /\ clarOut.before[clarOut.session_id].answers = <<"a1", "a2", "a3">>
    /\ clarOut.answers = <<"a1", " ">>
    /\ sessions[clarOut.session_id].answers = <<"a1", " ">>

\* C19: when the enrichment model call raises, enrich_query returns the
\* original query unchanged; get_enriched_query on a known session never
\* raises.
C19_EnrichmentFallsBack ==
    (AskedEnrichedQuery /\ KnownSession)
        => /\ clarOut.outcome.kind = "return"
           /\ clarOut.model = "raised"
                => clarOut.outcome.value
                     = clarOut.before[clarOut.session_id].original_query
           /\ sessions = clarOut.before

C19_Witness ==
    /\ AskedEnrichedQuery
    /\ KnownSession
    /\ clarOut.model = "raised"
    /\ clarOut.before[clarOut.session_id].answers # <<>>
    /\ clarOut.outcome = Returned("another q")

\* C20: analyze_query never raises: when the model call raises or its reply
\* cannot be read, the assessment says needs_clarification = false, so
\* start_clarification returns it, creates no session and does not raise.
C20_TriageFailureSkipsClarification ==
    (StartedClarification /\ clarOut.triage \in {"raised", "not json", "not an object"})
        => /\ clarOut.outcome.kind = "return"
           /\ clarOut.outcome.value.needs_clarification = FALSE
           /\ sessions = clarOut.before

C20_Witness ==
    /\ StartedClarification
    /\ clarOut.triage = "raised"
    /\ clarOut.before # <<>>
    /\ clarOut.outcome.kind = "return"
    /\ clarOut.outcome.value.query_assessment = <<"Error during assessment">>

----------------------------------------------------------------------------
(* Properties of the rate limiter.  A caller that has returned keeps the
   locals of its last acquire: `before` is the bucket it found on entering
   the lock, `now` the time it read, `available` the tokens after its refill,
   `left` the tokens when it left the lock. *)

ReturnedFrom(c, op) == callers[c].pc = "returned" /\ callers[c].op = op

\* the tokens a bucket found as `before` holds at time now
TokensAt(before, now) ==
    Min(rate_limiter.capacity,
        before.tokens + (now - before.last_refill) * rate_limiter.refill_rate)

\* C21: acquire(n) returns true and debits exactly n tokens if and only if,
\* after refill, at least n tokens are available; otherwise it returns false
\* and debits nothing.  So on a full bucket of capacity C acquire(C)
\* succeeds, on the emptied bucket an acquire(1) made before a token is
\* refilled fails, and an acquire(1) made 1/refill_rate or more after the last
\* refill succeeds.
C21_AcquireIffAvailable ==
    \A c \in Callers :
        ReturnedFrom(c, "acquire")
            => LET me == callers[c]
                   asked == me.tokens * Scale
                   sufficient == TokensAt(me.before, me.now) >= asked
               IN  /\ me.available = TokensAt(me.before, me.now)
                   /\ me.result = sufficient
                   /\ me.debited = IF sufficient THEN asked ELSE 0
                   /\ me.left = me.available - me.debited
                   /\ (me.before.tokens = rate_limiter.capacity /\ asked = rate_limiter.capacity)
                        => me.result
                   /\ (/\ me.before.tokens = 0
                       /\ me.tokens = 1
                       /\ (me.now - me.before.last_refill) * rate_limiter.refill_rate < Scale)
                        => ~me.result
                   /\ (/\ me.tokens = 1
                       /\ (me.now - me.before.last_refill) * rate_limiter.refill_rate >= Scale)
                        => me.result

\* a caller drained the fresh bucket, was refused one token at once and got
\* it once 1/refill_rate had passed
C21_Witness ==
    /\ ReturnedFrom(1, "acquire")
    /\ callers[1].calls = 3
    /\ callers[2].calls = 0
    /\ callers[1].tokens = 1
    /\ callers[1].before = [tokens |-> 0, last_refill |-> rate_limiter.created]
    /\ (callers[1].now - rate_limiter.created) * rate_limiter.refill_rate = Scale
    /\ callers[1].result = TRUE
    /\ granted = rate_limiter.capacity + Scale

\* a caller is between entering and leaving the lock in acquire
InAcquire(c) == callers[c].pc \in {"now", "refill", "stamp", "debit"}

\* the tokens refilled since the limiter was constructed
RefilledSince == (clock - rate_limiter.created) * rate_limiter.refill_rate

\* C22: under any interleaving of concurrent acquire calls the refill and the
\* debit of one call are one critical section: at most one caller is inside
\* it, the bucket stays between 0 and its capacity, and the tokens granted
\* so far plus those left never exceed the initial capacity plus the tokens
\* refilled over the elapsed time.
C22_NoOverAdmission ==
    rate_limiter # NoLimiter
        => /\ \A c, d \in Callers : InAcquire(c) /\ InAcquire(d) => c = d
           /\ \A c \in Callers : InAcquire(c) => rate_limiter.lock = c
           /\ rate_limiter.tokens >= 0
           /\ rate_limiter.tokens <= rate_limiter.capacity
           /\ granted + rate_limiter.tokens <= rate_limiter.capacity + RefilledSince
           /\ granted <= rate_limiter.capacity + RefilledSince

\* both callers ask for the one token refilled since the bucket was drained:
\* one holds the lock and is about to take it, the other waits for the lock
C22_Witness ==
    /\ callers[1].pc = "debit"
    /\ callers[2].pc = "lock"
    /\ callers[1].tokens = 1
    /\ callers[2].tokens = 1
    /\ granted = rate_limiter.capacity
    /\ rate_limiter.tokens = Scale
    /\ RefilledSince = Scale

\* the one caller is inside wait_and_acquire
Waiting == callers[1].pc # "idle" /\ callers[1].op = "wait_and_acquire"
                                  /\ callers[1].pc # "returned"

\* the caller is between two attempts of wait_and_acquire
BetweenAttempts == callers[1].pc \in {"estimate_lock", "estimate", "sleep"}

\* C23: for a single caller, wait_and_acquire(n) with 0 < n <= capacity and
\* a positive refill rate eventually returns as time advances; until it
\* returns nothing has been debited for the call, a failed attempt and the
\* estimate of the sleep leave the bucket as it is, and on return exactly n
\* tokens have been debited, by the one attempt that succeeded.
C23_WaitAndAcquireReturns ==
    /\ Waiting ~> ReturnedFrom(1, "wait_and_acquire")
    /\ [](Waiting => /\ callers[1].tokens > 0
                     /\ callers[1].tokens * Scale <= rate_limiter.capacity
                     /\ rate_limiter.refill_rate > 0
                     /\ callers[1].debited = 0
                     /\ BetweenAttempts
                          => /\ callers[1].result = FALSE
                             /\ callers[1].left = callers[1].available)
    /\ [](ReturnedFrom(1, "wait_and_acquire")
            => /\ callers[1].result = TRUE
               /\ callers[1].debited = callers[1].tokens * Scale
               /\ callers[1].left = callers[1].available - callers[1].tokens * Scale)
    /\ [][BetweenAttempts
            => rate_limiter'.tokens = rate_limiter.tokens /\ granted' = granted]_vars

\* the call returned after attempts that failed and sleeps cut to one second
C23_Witness ==
    /\ ReturnedFrom(1, "wait_and_acquire")
    /\ callers[1].tokens = MaxSleepTicks + 5
    /\ callers[1].before.tokens > 0
    /\ callers[1].before.tokens < callers[1].tokens * Scale
    /\ callers[1].before.last_refill >= rate_limiter.created + MaxSleepTicks
    /\ callers[1].debited = callers[1].tokens * Scale
    /\ granted = rate_limiter.capacity + callers[1].debited

----------------------------------------------------------------------------
(* Properties of the event loop, checked under SpecLoop *)

\* C24: while a research() call sleeps between polls or is inside a
\* submission, poll or cancel call of the provider, it does not hold the
\* event loop, so that the other coroutines can take steps.
C24_LoopFreeAcrossCallsAndSleeps ==
    \A c \in ResearchCalls :
        (Asleep(c) \/ InNetworkCall(c)) => event_loop.running # c

----------------------------------------------------------------------------
(* Further properties of research(), checked under Spec *)

\* C25: the completion webhook is POSTed only when a callback URL was
\* supplied and the task completed, at most once per research() call, and
\* with a callback URL a research() call whose task completed still returns
\* the extracted result: nothing that goes wrong about the callback makes it
\* raise or return something else.
C25_CallbackIsBestEffort ==
    /\ obs.posts > 0 => obs.callback_url # None /\ obs.sawCompleted
    /\ obs.posts <= 1
    /\ (ResearchEnded /\ obs.sawCompleted /\ obs.callback_url # None)
            => /\ researchOut.kind = "return"
               /\ obs.extracts = 1

\* the pre-pass of this research() call ran into a failure
BriefFailed == obs.brief \in {"prompt missing", "model raised"}

\* C26: when the instruction-builder pre-pass is enabled and its model call
\* or the loading of its prompt fails, research() goes on and submits the
\* caller's query unchanged (an exception it raises comes from the
\* submission, not from the pre-pass); when the pre-pass is disabled no
\* instruction-builder model call is made and the query is submitted
\* verbatim.
C26_BriefFallsBackToQuery ==
    obs.query # None
        => /\ BriefFailed
                => /\ research_agent.enable_clarification
                   /\ obs.submitted \in {None, obs.query}
                   /\ researchOut.kind = "raise" => obs.creates >= 1
                   /\ ResearchEnded => obs.submitted = obs.query
           /\ ~research_agent.enable_clarification
                => /\ obs.brief = "disabled"
                   /\ obs.builds = 0
                   /\ obs.submitted \in {None, obs.query}
                   /\ ResearchEnded => obs.submitted = obs.query
           /\ obs.brief = "written"
                => /\ obs.builds = 1
                   /\ obs.submitted \in {None, Brief(obs.query)}

\* the model call of the pre-pass raised and the research completed on the
\* caller's query
C26_Witness ==
    /\ obs.brief = "model raised"
    /\ obs.builds = 1
    /\ obs.submitted = "q"
    /\ researchOut.kind = "return"
    /\ researchOut.value.status = "completed"

----------------------------------------------------------------------------
(* Further properties of the tool operations, checked under SpecTools *)

\* the last tool call entered is deep_research(request_clarification = true)
AskedClarification == tool.name = "deep_research" /\ tool.request_clarification

\* no call of research() is under way and none was made by the tool call
NoResearchStarted ==
    /\ pc = "idle"
    /\ call = IdleCall
    /\ obs = NoObs
    /\ researchOut = NoOutcome

\* the text names session `sid` and ends with its questions
NamesSession(text, table, sid) ==
    LET n == Len(table[sid].questions)
        m == Len(text)
    IN  /\ m >= n + 3
        /\ text[m - n] = sid
        /\ SubSeq(text, m - n + 1, m) = table[sid].questions

QuestionsText ==
    /\ toolOut.kind = "return"
    /\ toolOut.value[1] = "# Clarifying Questions Needed"
    /\ toolOut.value[2] = tool.query
    /\ \E sid \in DOMAIN sessions : NamesSession(toolOut.value, sessions, sid)

SufficientText ==
    /\ toolOut.kind = "return"
    /\ toolOut.value[1] = "# Query Analysis"
    /\ toolOut.value[2] = tool.query

InitFailureText ==
    /\ ~HasAgent
    /\ toolOut.kind = "return"
    /\ toolOut.value[1] = "Failed to initialize research agent: "

----------------------------------------------------------------------------
(* Properties of the polling loop, checked under SpecPolling *)

\* a call of research() that polled its task has ended
PolledAndEnded == pc = "idle" /\ obs.retrieves > 0

\* C28: poll errors are not capped separately from the deadline: however
\* many retrieve calls in a row raised, the loop is left only by a retrieve
\* that reports 'completed', whose response is then the result, or by the
\* deadline; no error of a poll escapes it
C28_PollErrorsOnlyEndAtDeadline ==
    PolledAndEnded =>
        /\ researchOut.kind = "return"
        /\ obs.sawCompleted =>
               /\ obs.timeoutAt = -1
               /\ obs.cancels = 0
               /\ \E r \in RetrieveOutcomes(obs.issued) :
                      /\ r.kind = "return"
                      /\ r.value.status = "completed"
                      /\ researchOut = Returned(ExtractResults(r.value))
        /\ ~obs.sawCompleted =>
               /\ obs.timeoutAt >= research_agent.timeout
               /\ researchOut.value.status = "failed"

C28_Witness ==
    /\ PolledAndEnded
    /\ obs.raised = MaxErrorRuns
    /\ obs.retrieves = MaxErrorRuns + 1
    /\ obs.sawCompleted
    /\ obs.extracts = 1
    /\ researchOut.kind = "return"
    /\ researchOut.value.status = "completed"

----------------------------------------------------------------------------
(* Further properties of the clarification operations, checked under
   SpecClarify *)

\* C29: get_enriched_query returns None, without running the enrichment, for
\* a session with fewer answers than questions as well as for an unknown
\* session id
C29_EnrichmentOnlyWhenAnswered ==
    AskedEnrichedQuery /\ ~(KnownSession /\ Answered(clarOut.before[clarOut.session_id]))
        => /\ clarOut.outcome = Returned(None)
           /\ clarOut.model = "not called"

C30_WitnessExtraAnswers ==
    /\ AskedEnrichedQuery
    /\ KnownSession
    /\ Len(clarOut.before[clarOut.session_id].answers)
         > Len(clarOut.before[clarOut.session_id].questions)
    /\ Len(clarOut.qa_pairs) = 3

\* every session of the table is in the table after the step, with the
\* original_query and the questions it had
SessionsOutlive ==
    \A sid \in DOMAIN sessions :
        /\ sid \in DOMAIN sessions'
        /\ sessions'[sid].original_query = sessions[sid].original_query
        /\ sessions'[sid].questions = sessions[sid].questions

\* get_enriched_query is called again on the session of the last call
EnrichedAgain ==
    /\ AskedEnrichedQuery
    /\ AskedEnrichedQuery'
    /\ clarOut'.session_id = clarOut.session_id
    /\ clarOut.session_id \in DOMAIN sessions

\* C31: no clarification operation removes a session or changes its
\* original_query or questions; get_enriched_query leaves the table as it
\* found it, and a repeated call runs the enrichment again on the same pairs
C31_SessionsAreKept ==
    /\ [][SessionsOutlive]_vars
    /\ [](AskedEnrichedQuery => sessions = clarOut.before)
    /\ [][EnrichedAgain =>
            /\ clarOut'.model # "not called"
            /\ clarOut'.qa_pairs = clarOut.qa_pairs
            /\ clarOut'.context = clarOut.context]_vars

C31_Witness ==
    /\ AskedEnrichedQuery
    /\ KnownSession
    /\ Cardinality(DOMAIN sessions) = NumDirectSessions
    /\ sessions[clarOut.session_id].answers # <<>>
    /\ clarOut.model = "answered"

----------------------------------------------------------------------------
(* Properties of one session, checked under SpecSession *)

\* the last operation reported the state of a session of the table
ReportedSession ==
    \/ clarOut.op = "to_dict"
    \/ clarOut.op = "add_answers" /\ KnownSession

\* C32: the completeness flag add_answers and to_dict report is true exactly
\* when the session has at least as many answers as questions, and the
\* reported answered_questions and total_questions are the lengths of the
\* two lists; a session of no questions is complete from its creation
C32_CompletenessIsLengthComparison ==
    ReportedSession =>
        LET session == sessions[clarOut.session_id]
            report == clarOut.outcome.value
        IN  /\ report.is_complete <=> Len(session.answers) >= Len(session.questions)
            /\ report.answered_questions = Len(session.answers)
            /\ report.total_questions = Len(session.questions)

\* to_dict on a session of no questions that was never answered
C32_Witness ==
    /\ clarOut.op = "to_dict"
    /\ sessions[clarOut.session_id].questions = <<>>
    /\ sessions[clarOut.session_id].answers = <<>>
    /\ clarOut.outcome.value.is_complete

----------------------------------------------------------------------------
(* Further properties of _extract_openai_results, checked under SpecExtract *)

\* a completed response with output was extracted
ExtractedCompleted ==
    /\ researchOut.kind = "return"
    /\ call.final_response.status = "completed"
    /\ call.final_response.output # <<>>

\* the positions of the output items of a type
ItemsOfType(output, type) == {i \in 1..Len(output) : output[i].type = type}

\* the result counts every output item, counts the reasoning items that
\* carry a summary, and the example of the statement comes out as 2, 1, 2
StepCounts ==
    LET output == call.final_response.output
        result == researchOut.value
    IN  /\ result.total_steps = Len(output)
        /\ result.reasoning_steps =
              Cardinality({i \in ItemsOfType(output, "reasoning") :
                             "summary" \in DOMAIN output[i]})
        /\ (/\ Len(output) = 2
            /\ output[1] = ReasoningItem
            /\ output[2].content # <<>>
            /\ Len(output[2].content[1].annotations) = 2)
              => /\ result.total_steps = 2
                 /\ result.reasoning_steps = 1
                 /\ Len(result.citations) = 2

\* search_queries holds, in output order, one entry for each of the items
\* at the positions `items`: the query of its action, or "" without one
QueriesOf(items) ==
    LET output == call.final_response.output
        queries == researchOut.value.search_queries
    IN  /\ Len(queries) = Cardinality(items)
        /\ \A i \in items :
             queries[Cardinality({j \in items : j <= i})] =
                 IF "action" \in DOMAIN output[i] /\ "query" \in DOMAIN output[i].action
                 THEN output[i].action.query ELSE ""

\* C33 as stated: total_steps is the number of output items, reasoning_steps
\* the number of reasoning items with a summary, and search_queries has one
\* entry per web-search-call item, in output order with duplicates kept
C33_OneQueryPerSearchItem ==
    ExtractedCompleted =>
        /\ StepCounts
        /\ QueriesOf(ItemsOfType(call.final_response.output, "web_search_call"))

\* C33: total_steps is the number of output items, reasoning_steps the
\* number of reasoning items with a summary, and search_queries has one
\* entry per web-search-call item that carries an action, in output order
\* with duplicates kept: the query of the action, or "" when it has none
C33_OneQueryPerSearchAction ==
    ExtractedCompleted =>
        /\ StepCounts
        /\ QueriesOf({i \in ItemsOfType(call.final_response.output, "web_search_call") :
                        "action" \in DOMAIN call.final_response.output[i]})

C33_Witness ==
    /\ ExtractedCompleted
    /\ Len(call.final_response.output) = 5
    /\ researchOut.value.search_queries = <<"s2", "s1", "s2">>
    /\ researchOut.value.reasoning_steps = 1
    /\ researchOut.value.total_steps = 5

----------------------------------------------------------------------------
(* Properties of concurrent research() calls, checked under SpecConcurrent *)

\* the task ids the submission of call c returned
OwnTasks(c) == {Coroutine(c).issued} \ {None}

\* call c polled and cancelled no task but its own, and its result is made
\* of its own task's responses
KeepsToOwnTask(c) ==
    LET result == Coroutine(c).result
    IN  /\ Coroutine(c).polled \subseteq OwnTasks(c)
        /\ Coroutine(c).cancelled \subseteq OwnTasks(c)
        /\ (result.kind = "return" /\ "task_id" \in DOMAIN result.value)
              => result.value.task_id \in OwnTasks(c)
        /\ (result.kind = "return" /\ result.value.status = "failed")
              => result.value.message[2] \in OwnTasks(c)

----------------------------------------------------------------------------
(* Properties of concurrent research_with_context calls, checked under
   SpecContext *)

\* call c has computed its enriched query
Enriched(c) == Coroutine(c).pc \in {"research", "done"}

\* C35: research_with_context records the answers and computes the enriched
\* query without being suspended in between, so of two calls running
\* concurrently on one session each enriches from the answers it was given
\* itself, never from those of the other call
C35_EnrichedFromOwnAnswers ==
    /\ \A c \in ContextCalls :
          Enriched(c) =>
              \A i \in 1..Len(Coroutine(c).qa_pairs) :
                  Coroutine(c).qa_pairs[i].answer =
                      IF i <= Len(Coroutine(c).answers)
                      THEN Coroutine(c).answers[i] ELSE ""
    /\ \A c \in ContextCalls :
          Coroutine(c).pc = "get_enriched_query" =>
              /\ event_loop.running = c
              /\ sessions[SessionId(1)].answers = Coroutine(c).answers

\* both calls are in research() at once, each with the pairs of its own
\* answers, and the session holds the answers of the second
C35_Witness ==
    /\ Coroutine("research_with_context 1").pc = "research"
    /\ Coroutine("research_with_context 2").pc = "research"
    /\ Coroutine("research_with_context 1").answers = <<"a1", "a2", "a3">>
    /\ Coroutine("research_with_context 2").answers = <<"b1">>
    /\ Coroutine("research_with_context 1").qa_pairs[1].answer = "a1"
    /\ Coroutine("research_with_context 2").qa_pairs[1].answer = "b1"
    /\ sessions[SessionId(1)].answers = <<"a1", "a2", "a3">>

----------------------------------------------------------------------------
(* Properties of the progress heartbeat, checked under SpecHeartbeat *)

\* the tool has returned from a call that started a heartbeat task
ReturnedWithHeartbeat == event_loop.tool.pc = "returned" /\ event_loop.tool.ctx

\* C36: when a tool that started a heartbeat task returns, the task has been
\* cancelled, or had stopped by itself, and has been awaited, however
\* research() ended; no progress report of the heartbeat is sent after the
\* return; and a heartbeat whose report failed stops without changing how
\* the tool call goes on and what it returns
C36_HeartbeatEndsBeforeToolReturns ==
    /\ ReturnedWithHeartbeat =>
          /\ event_loop.heartbeat.pc \in {"cancelled", "stopped"}
          /\ event_loop.heartbeat.late = 0
    /\ event_loop.heartbeat.late = 0
    /\ event_loop.tool.pc = "returned" =>
          event_loop.tool.returned = HeartbeatToolText(event_loop.tool.research)
    /\ (event_loop.heartbeat.pc = "stopped" /\ event_loop.tool.pc = "research") =>
          \A research \in ResearchEndings : ENABLED ResearchReturns(research)

\* the tool returned after research() raised, its heartbeat cancelled after
\* it had sent reports
C36_Witness ==
    /\ ReturnedWithHeartbeat
    /\ event_loop.tool.research = "ResearchError"
    /\ event_loop.heartbeat.pc = "cancelled"
    /\ event_loop.heartbeat.sent = MaxMinutes

----------------------------------------------------------------------------
(* Properties of the process-wide agent, checked under SpecSingleton *)

\* the step is taken by a research_status call
StatusCallSteps ==
    \E c \in ToolCalls :
        /\ event_loop'.coroutines[c] # event_loop.coroutines[c]
        /\ Coroutine(c).tool = "research_status"

\* C37: the agent is built successfully at most once; once set it is never
\* replaced or reset, also with two first tool calls under way together, so
\* every session stays in its table; a failed construction leaves it unset
\* and the tool returns the initialisation failure text; research_status
\* never builds it
C37_AgentIsBuiltOnce ==
    /\ [](event_loop.constructions <= 1)
    /\ [](HasAgent <=> event_loop.constructions = 1)
    /\ [](InitErrors(env) # {} => ~HasAgent)
    /\ [](\A c \in ToolCalls :
            Coroutine(c).returned = "Failed to initialize research agent: "
                => ~HasAgent /\ InitErrors(env) # {})
    /\ [][HasAgent => research_agent' = research_agent]_vars
    /\ [][\A sid \in DOMAIN sessions :
            sid \in DOMAIN sessions' /\ sessions'[sid] = sessions[sid]]_vars
    /\ [][StatusCallSteps => research_agent' = research_agent]_vars

\* two tool calls were started on a process without an agent; the agent was
\* built once and holds the session the first opened
C37_Witness ==
    /\ HasAgent
    /\ event_loop.constructions = 1
    /\ Coroutine("tool call 1").tool = "deep_research(request_clarification)"
    /\ Coroutine("tool call 1").pc = "returned"
    /\ Coroutine("tool call 2").tool = "research_with_context"
    /\ Coroutine("tool call 2").pc = "body"
    /\ DOMAIN sessions # {}

C37_WitnessFailed ==
    /\ ~HasAgent
    /\ Coroutine("tool call 1").returned = "Failed to initialize research agent: "
    /\ Coroutine("tool call 2").returned =
          "Research agent not initialized. Please run a research query first."

----------------------------------------------------------------------------
(* Properties of the shared limiter, checked under SpecLimiterShared *)

\* C38: in every state of the limiter, whatever the interleaving of acquire
\* and wait_and_acquire calls asking for zero or more tokens while the clock
\* does not go back, 0 <= tokens <= capacity, and no step lowers
\* last_refill.
C38_BucketStaysInBounds ==
    /\ [](rate_limiter # NoLimiter
            => /\ rate_limiter.tokens >= 0
               /\ rate_limiter.tokens <= rate_limiter.capacity)
    /\ [][rate_limiter # NoLimiter
            => rate_limiter'.last_refill >= rate_limiter.last_refill]_vars
    /\ [][clock' >= clock]_vars
    /\ [](\A c \in Callers : callers[c].pc # "idle" => callers[c].tokens >= 0)

\* a token was taken and, two ticks on, a refill that would overfill the
\* bucket left it at its capacity; both kinds of call were made
C38_Witness ==
    /\ rate_limiter # NoLimiter
    /\ rate_limiter.refill_rate > 0
    /\ granted = Scale
    /\ rate_limiter.tokens = rate_limiter.capacity
    /\ rate_limiter.last_refill >= rate_limiter.created + 2
    /\ callers[1].pc # "idle" /\ callers[1].op = "wait_and_acquire"
    /\ callers[2].pc # "idle" /\ callers[2].op = "acquire"

\* the bucket was emptied
C38_WitnessEmpty ==
    /\ rate_limiter # NoLimiter
    /\ rate_limiter.capacity > 0
    /\ rate_limiter.tokens = 0
    /\ callers[1].pc = "sleep"

\* the caller is inside wait_and_acquire(n) with n above the capacity, or
\* with no refill and fewer than n tokens in the bucket
WaitsInVain(c) ==
    /\ callers[c].pc # "idle"
    /\ callers[c].op = "wait_and_acquire"
    /\ \/ callers[c].tokens * Scale > rate_limiter.capacity
       \/ /\ rate_limiter.refill_rate = 0
          /\ callers[c].tokens * Scale > rate_limiter.tokens

\* C39: wait_and_acquire(n) with n above the capacity, or with a zero
\* refill rate and fewer than n tokens left, never returns: every attempt
\* is refused, nothing is debited, and the call goes on to its next sleep.
C39_WaitBeyondCapacityNeverReturns ==
    /\ [](\A c \in Callers :
            WaitsInVain(c)
                => /\ callers[c].pc # "returned"
                   /\ callers[c].debited = 0
                   /\ callers[c].pc \in {"estimate_lock", "estimate", "sleep"}
                        => callers[c].result = FALSE
                   /\ At(c, "debit") => ~Admits(rate_limiter, callers[c].tokens))
    /\ [][\A c \in Callers :
            WaitsInVain(c) /\ callers'[c] # callers[c]
                => /\ WaitsInVain(c)'
                   /\ rate_limiter'.tokens >= rate_limiter.tokens]_vars

\* the bucket is full and the caller, refused once and back from its sleep,
\* has been refused again
C39_Witness ==
    /\ WaitsInVain(1)
    /\ rate_limiter.refill_rate > 0
    /\ rate_limiter.tokens = rate_limiter.capacity
    /\ callers[1].tokens * Scale = rate_limiter.capacity + Scale
    /\ At(1, "estimate")
    /\ callers[2].pc = "idle"
    /\ callers[1].before.last_refill > rate_limiter.created
    /\ callers[1].result = FALSE

\* the same on a limiter that never refills
C39_WitnessNoRefill ==
    /\ WaitsInVain(1)
    /\ rate_limiter.refill_rate = 0
    /\ callers[1].tokens = 1
    /\ At(1, "estimate")
    /\ callers[2].pc = "idle"
    /\ callers[1].before.last_refill > rate_limiter.created
    /\ callers[1].result = FALSE

----------------------------------------------------------------------------
(* Properties of the waiting caller, checked under SpecLimiterFair *)

\* caller 1 is inside wait_and_acquire(n) with 0 < n <= capacity on a
\* limiter that refills
WaiterWaits ==
    /\ callers[1].pc \in {"acquire", "estimate", "sleep"}
    /\ callers[1].tokens > 0
    /\ callers[1].tokens * Scale <= rate_limiter.capacity
    /\ rate_limiter.refill_rate > 0

\* C40: with several concurrent callers and weak fairness of every caller's
\* steps, a wait_and_acquire(n) call with 0 < n <= capacity and a positive
\* refill rate eventually returns, even while another caller keeps
\* acquiring tokens.
C40_WaiterEventuallyReturns ==
    WaiterWaits ~> (callers[1].pc = "returned")

====
